---- MODULE Spec2Model ----
(***************************************************************************)
(* Model of the casper-sidecar event pipeline:                             *)
(*   upstream listener -> sse_processor -> {store, broadcast hub}          *)
(*   -> stream_to_client (one stream per downstream subscriber).           *)
(***************************************************************************)
EXTENDS Integers, Sequences, FiniteSets, TLC

(***************************************************************************)
(* Bounds of the model.                                                    *)
(***************************************************************************)
\* number of envelopes the upstream listener delivers in a run of the ingest pipeline
MaxEvents == 3
\* number of envelopes the upstream listener delivers in a run with subscribers
MaxLive == 2
\* max_concurrent_subscribers in the admission runs
MaxSubscribers == 1
\* event_stream_buffer_length in the runs with subscribers: the broadcast channel's capacity
BufferLength == 1
\* number of distinct primary keys (hashes, eras) an upstream payload can carry
MaxKey == 2

(***************************************************************************)
(* Data.                                                                   *)
(***************************************************************************)
\* Option::None of a u32 (an event id, a configured length)
NoId == -1
\* Option::None elsewhere
None == "None"
\* no envelope in hand
NoEnv == [kind |-> None, id |-> NoId, source |-> None, key |-> 0]

\* the three upstream endpoints (casper_event_types::Filter as seen by the processor)
Sources == {"main", "deploys", "sigs"}

\* the SseData variants that sse_processor persists
TypedKinds ==
  {"BlockAdded", "DeployAccepted", "DeployExpired", "DeployProcessed",
   "Fault", "FinalitySignature", "Step"}

\* every SseData variant the listener can hand to sse_processor
IngestKinds == {"ApiVersion", "Shutdown"} \cup TypedKinds

Keys == 1..MaxKey

\* the upstream endpoint on which the node emits each kind of event
SourcesOf(kind) ==
  CASE kind = "DeployAccepted" -> {"deploys"}
    [] kind = "FinalitySignature" -> {"sigs"}
    [] kind \in {"ApiVersion", "Shutdown"} -> Sources
    [] OTHER -> {"main"}

VARIABLES
  chan,        \* the listener's channel (consume_combine_streams): envelopes not yet received
  lastId,      \* per upstream endpoint: the last SSE id the endpoint has emitted
  sent,        \* history: every envelope the listener has delivered, in delivery order
  pc,          \* position of sse_processor
  cur,         \* the envelope sse_processor is handling
  res,         \* the result of the store save for cur
  event_log,   \* store: the event_log table, in commit order
  typed,       \* store: the rows of the typed tables
  bcast,       \* hub: every message sent on the broadcast channel, in send order
  handled,     \* history: the envelopes sse_processor has finished, with the save result
  infoQ,       \* hub: the NewSubscriberInfo channel to the server task
  sub,         \* per downstream request: the handler's and the stream's state
  config,      \* the event stream server's Config
  reads,       \* reader: the last get_deploy_aggregate_by_hash call, with its result
  call,        \* reader: the last read called with a hash or public key string
  first,       \* startup: per upstream endpoint, the first frame read from it
  run,         \* startup: the position of the main function (run)
  rest         \* the REST server task

storeVars == <<event_log, typed>>
readerVars == <<reads, call>>
bootVars == <<first, run, rest>>
procVars == <<pc, cur, res, handled>>
listenerVars == <<chan, lastId, sent>>
hubVars == <<infoQ, sub, config>>
vars ==
  <<chan, lastId, sent, pc, cur, res, event_log, typed, bcast, handled, infoQ, sub, config,
    reads, call, first, run, rest>>

(***************************************************************************)
(* Store (writer side).                                                    *)
(***************************************************************************)
\* the event_log row written for an envelope
LogRow(env, n) ==
  [event_log_id |-> n, source |-> env.source, event_type |-> env.kind,
   event_id |-> env.id, key |-> env.key]

\* variant of TypedRow whose event_log_id is not the one of the row just inserted
TypedRow_Dangling(env, n) == [table |-> env.kind, key |-> env.key, event_log_id |-> n + 1]

\* the typed child row written for an envelope
TypedRow(env, n) == [table |-> env.kind, key |-> env.key, event_log_id |-> n]

\* the event a committed event_log row stands for
EventOfRow(row) ==
  [id |-> row.event_id, data |-> row.event_type, inbound_filter |-> row.source,
   key |-> row.key]

\* the outcomes the store can give for saving env in the current state
SaveOutcomes(env) ==
  {"Other"} \cup
  (IF \E r \in typed : r.table = env.kind /\ r.key = env.key
   THEN {"DuplicateEntry"}
   ELSE IF \E i \in 1..Len(event_log) :
             /\ event_log[i].source = env.source
             /\ event_log[i].event_type = env.kind
             /\ event_log[i].event_id = env.id
        THEN {"UniqueConstraint"}
        ELSE {"Ok"})

\* variant of save that commits the event_log row when the child insert fails on a
\* duplicate
Save_NoRollback(env, outcome) ==
  IF outcome = "Ok"
  THEN /\ event_log' = Append(event_log, LogRow(env, Len(event_log) + 1))
       /\ typed' = typed \cup {TypedRow(env, Len(event_log) + 1)}
  ELSE IF outcome = "DuplicateEntry"
  THEN /\ event_log' = Append(event_log, LogRow(env, Len(event_log) + 1))
       /\ typed' = typed
  ELSE UNCHANGED <<event_log, typed>>

\* save(event, id, source): event_log row and typed row in one transaction
Save(env, outcome) ==
  IF outcome = "Ok"
  THEN /\ event_log' = Append(event_log, LogRow(env, Len(event_log) + 1))
       /\ typed' = typed \cup {TypedRow(env, Len(event_log) + 1)}
  ELSE UNCHANGED <<event_log, typed>>

(***************************************************************************)
(* Store (reader side).                                                    *)
(***************************************************************************)
\* the three lookups of the deploy aggregate
LookupNames == {"accepted", "processed", "expired"}

\* what can go wrong in a lookup: nothing, the query itself (fetch_optional), or the
\* handling of the row found (try_get("raw"), deserialize_data)
LookupFaults == {"none", "fetch", "row"}

\* Result<_, DatabaseReadError> of a lookup: row is the event_log_id of the row found
LookupOk(row) == [ok |-> TRUE, err |-> None, row |-> row]
LookupErr(err) == [ok |-> FALSE, err |-> err, row |-> NoId]

\* fetch_optional(stmt), then None => NotFound, Some(row) => the deserialized raw
ByHash(store, table, hash, fault) ==
  LET rows == {r \in store : r.table = table /\ r.key = hash} IN
    IF fault = "fetch" THEN LookupErr("Unhandled")
    ELSE IF rows = {} THEN LookupErr("NotFound")
    ELSE IF fault = "row" THEN LookupErr("Wrapped")
    ELSE LookupOk((CHOOSE r \in rows : TRUE).event_log_id)

\* get_deploy_accepted_by_hash
get_deploy_accepted_by_hash(store, hash, fault) ==
  ByHash(store, "DeployAccepted", hash, fault)

\* get_deploy_processed_by_hash
get_deploy_processed_by_hash(store, hash, fault) ==
  ByHash(store, "DeployProcessed", hash, fault)

\* variant of get_deploy_expired_by_hash that never finds a row
get_deploy_expired_by_hash_Blind(store, hash, fault) ==
  IF fault = "fetch" THEN LookupErr("Unhandled") ELSE LookupErr("NotFound")

\* get_deploy_expired_by_hash
get_deploy_expired_by_hash(store, hash, fault) ==
  ByHash(store, "DeployExpired", hash, fault)

\* matches!(DatabaseReadError::NotFound, _err): the expression matched is the constant
\* NotFound and the pattern _err is an identifier, which binds any value
MatchesNotFound(err) == TRUE

\* Result<DeployAggregate, DatabaseReadError>
AggregateOk(accepted, processed, expired) ==
  [ok |-> TRUE, err |-> None, deploy_accepted |-> accepted, deploy_processed |-> processed,
   deploy_expired |-> expired]
AggregateErr(err) ==
  [ok |-> FALSE, err |-> err, deploy_accepted |-> NoId, deploy_processed |-> NoId,
   deploy_expired |-> FALSE]

\* variant of get_deploy_aggregate_by_hash that applies `?` to the processed lookup
get_deploy_aggregate_by_hash_Strict(store, hash, faults) ==
  LET deploy_accepted == get_deploy_accepted_by_hash(store, hash, faults.accepted)
      processed == get_deploy_processed_by_hash(store, hash, faults.processed)
  IN IF ~deploy_accepted.ok THEN AggregateErr(deploy_accepted.err)
     ELSE IF ~processed.ok THEN AggregateErr(processed.err)
     ELSE AggregateOk(deploy_accepted.row, processed.row, FALSE)

\* variant of get_deploy_aggregate_by_hash that consults the expired table before the
\* processed table
get_deploy_aggregate_by_hash_ExpiredFirst(store, hash, faults) ==
  LET deploy_accepted == get_deploy_accepted_by_hash(store, hash, faults.accepted)
      processed == get_deploy_processed_by_hash(store, hash, faults.processed)
      expired == get_deploy_expired_by_hash(store, hash, faults.expired)
  IN IF ~deploy_accepted.ok THEN AggregateErr(deploy_accepted.err)
     ELSE IF expired.ok THEN AggregateOk(deploy_accepted.row, NoId, TRUE)
     ELSE IF processed.ok THEN AggregateOk(deploy_accepted.row, processed.row, FALSE)
     ELSE AggregateOk(deploy_accepted.row, NoId, FALSE)

\* get_deploy_aggregate_by_hash; faults: the fault of each of the three lookups
get_deploy_aggregate_by_hash(store, hash, faults) ==
  LET deploy_accepted == get_deploy_accepted_by_hash(store, hash, faults.accepted)
      processed == get_deploy_processed_by_hash(store, hash, faults.processed)
      expired == get_deploy_expired_by_hash(store, hash, faults.expired)
  IN IF ~deploy_accepted.ok THEN AggregateErr(deploy_accepted.err)
     ELSE IF processed.ok THEN AggregateOk(deploy_accepted.row, processed.row, FALSE)
     ELSE IF ~MatchesNotFound(processed.err) THEN AggregateErr(processed.err)
     ELSE IF expired.ok THEN AggregateOk(deploy_accepted.row, NoId, TRUE)
     ELSE IF ~MatchesNotFound(expired.err) THEN AggregateErr(expired.err)
     ELSE AggregateOk(deploy_accepted.row, NoId, FALSE)

\* no call yet
NoRead ==
  [hash |-> 0, faults |-> [l \in LookupNames |-> "none"], store |-> {},
   result |-> AggregateErr(None)]

\* a client of the reader calls get_deploy_aggregate_by_hash(hash) on the store as it
\* is (one call in a run; a call leaves nothing behind for the next one); store: the
\* typed rows the call has read
ReadAggregate ==
  /\ reads = NoRead
  /\ \E hash \in Keys, faults \in [LookupNames -> LookupFaults] :
       reads' = [hash |-> hash, faults |-> faults, store |-> typed,
                 result |-> get_deploy_aggregate_by_hash(typed, hash, faults)]
  /\ UNCHANGED <<listenerVars, procVars, storeVars, call, bootVars, bcast, hubVars>>

(***************************************************************************)
(* Store (reader side): the hash and public key parameters.                *)
(***************************************************************************)
\* the characters of the class [0-9A-Fa-f]
HexChars ==
  {"0", "1", "2", "3", "4", "5", "6", "7", "8", "9",
   "a", "b", "c", "d", "e", "f", "A", "B", "C", "D", "E", "F"}

\* the string of n characters ch
Repeat(ch, n) == [i \in 1..n |-> ch]

\* check_hash_is_correct_format: Regex "^([0-9A-Fa-f]){64}$" is_match (TRUE: Ok(()),
\* FALSE: Err(InvalidParam))
check_hash_is_correct_format(hash) ==
  Len(hash) = 64 /\ \A i \in 1..Len(hash) : hash[i] \in HexChars

\* check_public_key_is_correct_format: Regex "^([0-9A-Fa-f]{2}){33,34}$" is_match
check_public_key_is_correct_format(public_key_hex) ==
  /\ \E pairs \in 33..34 : Len(public_key_hex) = 2 * pairs
  /\ \A i \in 1..Len(public_key_hex) : public_key_hex[i] \in HexChars

\* the reads of the store that take a hash or a public key
HashReads ==
  {"get_block_by_hash", "get_deploy_aggregate_by_hash", "get_deploy_accepted_by_hash",
   "get_deploy_processed_by_hash", "get_deploy_expired_by_hash",
   "get_finality_signatures_by_block"}
KeyReads == {"get_faults_by_public_key"}

\* the table a read selects from
TableOf(op) ==
  CASE op = "get_block_by_hash" -> "BlockAdded"
    [] op \in {"get_deploy_aggregate_by_hash", "get_deploy_accepted_by_hash"} -> "DeployAccepted"
    [] op = "get_deploy_processed_by_hash" -> "DeployProcessed"
    [] op = "get_deploy_expired_by_hash" -> "DeployExpired"
    [] op = "get_finality_signatures_by_block" -> "FinalitySignature"
    [] op = "get_faults_by_public_key" -> "Fault"

\* the entity a hash or public key string names: the strings of one repeated hex digit
\* name the entities of the store, every other string none
ParamKey(param) ==
  IF param = Repeat("a", 64) \/ param = Repeat("a", 66) THEN 1
  ELSE IF param = Repeat("F", 64) \/ param = Repeat("0", 68) THEN 2
  ELSE 0

\* Result of a read: queried tells whether a statement was sent to the database
ParamRejected == [queried |-> FALSE, err |-> "InvalidParam"]
ParamQueried(err) == [queried |-> TRUE, err |-> err]

\* the statement of a read is executed: fetch_optional / fetch_all, no row => NotFound
QueryBy(store, op, param) ==
  IF \E r \in store : r.table = TableOf(op) /\ r.key = ParamKey(param)
  THEN ParamQueried(None)
  ELSE ParamQueried("NotFound")

\* the reads of src/src/sqlite_database/reader.rs: the format check, then the query
SqliteRead(store, op, param) ==
  IF op \in KeyReads
  THEN IF ~check_public_key_is_correct_format(param) THEN ParamRejected
       ELSE QueryBy(store, op, param)
  ELSE IF ~check_hash_is_correct_format(param) THEN ParamRejected
       ELSE QueryBy(store, op, param)

\* the reads of database_reader_implementation! (reader_generator.rs): the query
GeneratedRead(store, op, param) == QueryBy(store, op, param)

\* the two implementations of the reader
Readers == {"sqlite_database", "reader_generator"}

\* no call yet
NoCall == [reader |-> None, op |-> None, param |-> <<>>, result |-> ParamQueried(None)]

\* a client of the reader calls one of its reads with a string drawn from params (one
\* call in a run)
ReadByParam(params) ==
  /\ call = NoCall
  /\ \E reader \in Readers, op \in HashReads \cup KeyReads, param \in params :
       call' = [reader |-> reader, op |-> op, param |-> param,
                result |-> IF reader = "sqlite_database"
                           THEN SqliteRead(typed, op, param)
                           ELSE GeneratedRead(typed, op, param)]
  /\ UNCHANGED <<listenerVars, procVars, storeVars, reads, bootVars, bcast, hubVars>>

(***************************************************************************)
(* Hub (producer side).                                                    *)
(***************************************************************************)
\* the ServerSentEvent published for an envelope
SseOf(env) ==
  [id |-> env.id, data |-> env.kind, inbound_filter |-> env.source, key |-> env.key]

\* BroadcastChannelMessage::ServerSentEvent(event)
EventMessage(event) == [msg |-> "ServerSentEvent", event |-> event]

\* EventStreamServer::broadcast: send on the broadcast channel; a send never waits
\* for a receiver
Broadcast(env) == bcast' = Append(bcast, EventMessage(SseOf(env)))

(***************************************************************************)
(* Upstream listener.                                                      *)
(***************************************************************************)
\* the listener pushes one more envelope into the channel, whose receiver lives as
\* long as sse_processor runs
Deliver(kind, source, key, id) ==
  /\ pc \notin {"done", "panicked"}
  /\ chan' = Append(chan, [kind |-> kind, id |-> id, source |-> source, key |-> key])
  /\ sent' = Append(sent, [kind |-> kind, id |-> id, source |-> source, key |-> key])
  /\ lastId' = IF id = NoId \/ id <= lastId[source]
               THEN lastId
               ELSE [lastId EXCEPT ![source] = id]

\* ids an upstream endpoint can put on its next frame: the next id, the last id
\* again (a frame re-sent after a reconnect), or none
NextIds(source) ==
  {NoId, lastId[source] + 1} \cup (IF lastId[source] > 0 THEN {lastId[source]} ELSE {})

\* the entity the next event of a kind is about: one an event of this kind has
\* already been about, or the next new one (entities are numbered in order of
\* first appearance)
NextKeys(kind) ==
  LET seen == {sent[i].key : i \in {j \in 1..Len(sent) : sent[j].kind = kind}}
  IN {key \in Keys : key <= Cardinality(seen) + 1}

\* an upstream endpoint among `sources` emits a frame of one of `kinds`; wellFormed:
\* every frame of a typed kind carries a fresh id
Upstream(kinds, sources, wellFormed) ==
  \E kind \in kinds :
    \E source \in SourcesOf(kind) \cap sources :
      IF kind \in TypedKinds
      THEN \E key \in NextKeys(kind) :
             \E id \in (IF wellFormed THEN {lastId[source] + 1} ELSE NextIds(source)) :
               Deliver(kind, source, key, id)
      ELSE IF kind = "ApiVersion"
           THEN Deliver(kind, source, 0, NoId)
           ELSE Deliver(kind, source, 0, lastId[source] + 1)

Ingest ==
  /\ Len(sent) < MaxEvents
  /\ Upstream(IngestKinds, Sources, FALSE)
  /\ UNCHANGED <<procVars, storeVars, readerVars, bootVars, bcast, hubVars>>

(***************************************************************************)
(* sse_processor.                                                          *)
(***************************************************************************)
\* variant of the receive step that takes the newest envelope of the channel first
ProcRecv_Newest ==
  /\ pc = "recv"
  /\ chan # <<>>
  /\ chan' = SubSeq(chan, 1, Len(chan) - 1)
  /\ LET env == chan[Len(chan)] IN
       CASE env.kind = "ApiVersion" ->
              /\ handled' = Append(handled, [env |-> env, res |-> None])
              /\ UNCHANGED <<pc, cur>>
         [] env.kind = "Shutdown" ->
              /\ pc' = "done"
              /\ handled' = Append(handled, [env |-> env, res |-> None])
              /\ UNCHANGED cur
         [] OTHER ->
              /\ pc' = IF env.id = NoId THEN "panicked" ELSE "save"
              /\ cur' = env
              /\ UNCHANGED handled
  /\ UNCHANGED <<lastId, sent, res, storeVars, readerVars, bootVars, bcast, hubVars>>

\* variant of the loop whose Shutdown arm does not break
ProcRecv_IgnoreShutdown ==
  /\ pc = "recv"
  /\ chan # <<>>
  /\ chan' = Tail(chan)
  /\ LET env == Head(chan) IN
       CASE env.kind \in {"ApiVersion", "Shutdown"} ->
              /\ handled' = Append(handled, [env |-> env, res |-> None])
              /\ UNCHANGED <<pc, cur>>
         [] OTHER ->
              /\ pc' = IF env.id = NoId THEN "panicked" ELSE "save"
              /\ cur' = env
              /\ UNCHANGED handled
  /\ UNCHANGED <<lastId, sent, res, storeVars, readerVars, bootVars, bcast, hubVars>>

\* while let Some(sse_event) = sse_data_stream.recv().await, then match sse_event.data
ProcRecv ==
  /\ pc = "recv"
  /\ chan # <<>>
  /\ chan' = Tail(chan)
  /\ LET env == Head(chan) IN
       CASE env.kind = "ApiVersion" ->
              /\ handled' = Append(handled, [env |-> env, res |-> None])
              /\ UNCHANGED <<pc, cur>>
         [] env.kind = "Shutdown" ->
              /\ pc' = "done"
              /\ handled' = Append(handled, [env |-> env, res |-> None])
              /\ UNCHANGED cur
         [] OTHER ->
              \* sse_event.id.unwrap()
              /\ pc' = IF env.id = NoId THEN "panicked" ELSE "save"
              /\ cur' = env
              /\ UNCHANGED handled
  /\ UNCHANGED <<lastId, sent, res, storeVars, readerVars, bootVars, bcast, hubVars>>

\* let res = sqlite_database.save_xxx(.., id, source).await
ProcSave ==
  /\ pc = "save"
  /\ \E outcome \in SaveOutcomes(cur) :
       /\ Save(cur, outcome)
       /\ res' = outcome
  /\ pc' = "match"
  /\ UNCHANGED <<listenerVars, cur, bcast, handled, hubVars, readerVars, bootVars>>

\* variant of the match that broadcasts whatever the save returned
ProcMatch_AlwaysBroadcast ==
  /\ pc = "match"
  /\ Broadcast(cur)
  /\ handled' = Append(handled, [env |-> cur, res |-> res])
  /\ pc' = "recv"
  /\ cur' = NoEnv
  /\ res' = None
  /\ UNCHANGED <<listenerVars, storeVars, readerVars, bootVars, hubVars>>

\* variant of the match that leaves the loop when the save failed
ProcMatch_StopOnError ==
  /\ pc = "match"
  /\ IF res = "Ok" THEN Broadcast(cur) ELSE UNCHANGED bcast
  /\ handled' = Append(handled, [env |-> cur, res |-> res])
  /\ pc' = IF res = "Ok" THEN "recv" ELSE "done"
  /\ cur' = NoEnv
  /\ res' = None
  /\ UNCHANGED <<listenerVars, storeVars, readerVars, bootVars, hubVars>>

\* variant of the match whose broadcast waits while the buffer of an attached
\* receiver is full
ProcMatch_Backpressure ==
  /\ pc = "match"
  /\ res = "Ok" =>
       \A c \in DOMAIN sub :
         sub[c].attached => Len(bcast) - sub[c].cursor < config.event_stream_buffer_length
  /\ IF res = "Ok" THEN Broadcast(cur) ELSE UNCHANGED bcast
  /\ handled' = Append(handled, [env |-> cur, res |-> res])
  /\ pc' = "recv"
  /\ cur' = NoEnv
  /\ res' = None
  /\ UNCHANGED <<listenerVars, storeVars, readerVars, bootVars, hubVars>>

\* match res { Ok(_) => event_stream_server.broadcast(..), Err(err) => warn!(..) }
ProcMatch ==
  /\ pc = "match"
  /\ IF res = "Ok" THEN Broadcast(cur) ELSE UNCHANGED bcast
  /\ handled' = Append(handled, [env |-> cur, res |-> res])
  /\ pc' = "recv"
  /\ cur' = NoEnv
  /\ res' = None
  /\ UNCHANGED <<listenerVars, storeVars, readerVars, bootVars, hubVars>>

(***************************************************************************)
(* SSE server: paths, queries, filters.                                    *)
(***************************************************************************)
\* DEFAULT_EVENT_STREAM_BUFFER_LENGTH, DEFAULT_MAX_CONCURRENT_SUBSCRIBERS
DEFAULT_EVENT_STREAM_BUFFER_LENGTH == 5000
DEFAULT_MAX_CONCURRENT_SUBSCRIBERS == 100

\* Config::new
ConfigNew(buffer_length, max_subscribers) ==
  [event_stream_buffer_length |->
     IF buffer_length = NoId THEN DEFAULT_EVENT_STREAM_BUFFER_LENGTH ELSE buffer_length,
   max_concurrent_subscribers |->
     IF max_subscribers = NoId THEN DEFAULT_MAX_CONCURRENT_SUBSCRIBERS ELSE max_subscribers]

\* the downstream requests of a run
Clients == DOMAIN sub

\* EVENTS_FILTER, MAIN_FILTER, DEPLOYS_FILTER, SIGNATURES_FILTER, SIDECAR_FILTER
EVENTS_FILTER == {"ApiVersion", "BlockAdded", "DeployProcessed", "Fault", "FinalitySignature"}
\* variant of MAIN_FILTER that also lets DeployAccepted through
MAIN_FILTER_WithDeployAccepted ==
  {"ApiVersion", "BlockAdded", "DeployProcessed", "DeployExpired", "Fault", "Step",
   "DeployAccepted"}
MAIN_FILTER ==
  {"ApiVersion", "BlockAdded", "DeployProcessed", "DeployExpired", "Fault", "Step"}
DEPLOYS_FILTER == {"ApiVersion", "DeployAccepted"}
SIGNATURES_FILTER == {"ApiVersion", "FinalitySignature"}
SIDECAR_FILTER == {"SidecarVersion"}

\* the last URL path element of a request; "events" is also the value used when the
\* element is missing
PathParams == {"events", "main", "deploys", "sigs", "sidecar", "other"}

\* path_to_filter: the Endpoint of a path element, or None
path_to_filter(path_param) ==
  CASE path_param = "events" -> "Events"
    [] path_param = "main" -> "Main"
    [] path_param = "deploys" -> "Deploys"
    [] path_param = "sigs" -> "Sigs"
    [] path_param = "sidecar" -> "Sidecar"
    [] OTHER -> None

\* get_filter: the EventFilter set of a path element (some = FALSE: None)
get_filter(path_param) ==
  CASE path_param = "events" -> [some |-> TRUE, filter |-> EVENTS_FILTER]
    [] path_param = "main" -> [some |-> TRUE, filter |-> MAIN_FILTER]
    [] path_param = "deploys" -> [some |-> TRUE, filter |-> DEPLOYS_FILTER]
    [] path_param = "sigs" -> [some |-> TRUE, filter |-> SIGNATURES_FILTER]
    [] path_param = "sidecar" -> [some |-> TRUE, filter |-> SIDECAR_FILTER]
    [] OTHER -> [some |-> FALSE, filter |-> {}]

Digits == <<"0", "1", "2", "3", "4", "5", "6", "7", "8", "9">>

IsDigit(ch) == \E d \in 1..10 : Digits[d] = ch

DigitValue(ch) == (CHOOSE d \in 1..10 : Digits[d] = ch) - 1

\* u32::MAX, 4294967295, in decimal digits
U32MaxDigits == <<"4", "2", "9", "4", "9", "6", "7", "2", "9", "5">>

RECURSIVE StripZeros(_)
\* the digits without leading zeros
StripZeros(chars) ==
  IF Len(chars) > 1 /\ Head(chars) = "0" THEN StripZeros(Tail(chars)) ELSE chars

RECURSIVE DigitsLeq(_, _)
\* a <= b for two digit sequences of the same length
DigitsLeq(a, b) ==
  IF a = <<>> THEN TRUE
  ELSE IF DigitValue(Head(a)) # DigitValue(Head(b))
       THEN DigitValue(Head(a)) < DigitValue(Head(b))
       ELSE DigitsLeq(Tail(a), Tail(b))

\* variant of FitsU32 without the overflow check
FitsU32_Unchecked(chars) == TRUE

\* the decimal number fits a u32
FitsU32(chars) ==
  \/ Len(StripZeros(chars)) < Len(U32MaxDigits)
  \/ /\ Len(StripZeros(chars)) = Len(U32MaxDigits)
     /\ DigitsLeq(StripZeros(chars), U32MaxDigits)

RECURSIVE DecimalValue(_, _)
\* the value of a sequence of digits read after the prefix value acc; the values
\* from 2^31 - 1 to u32::MAX are all represented by 2^31 - 1, which is above every
\* id of a run
DecimalValue(chars, acc) ==
  IF chars = <<>> THEN acc
  ELSE IF acc > (2147483647 - DigitValue(Head(chars))) \div 10 THEN 2147483647
  ELSE DecimalValue(Tail(chars), acc * 10 + DigitValue(Head(chars)))

\* id_str.parse::<u32>().ok(): an optional "+", then at least one digit and only
\* digits, the number at most u32::MAX; NoId otherwise
ParseU32(chars) ==
  LET digits == IF chars # <<>> /\ Head(chars) = "+" THEN Tail(chars) ELSE chars
  IN IF digits = <<>> \/ (\E i \in 1..Len(digits) : ~IsDigit(digits[i])) \/ ~FitsU32(digits)
     THEN NoId
     ELSE DecimalValue(digits, 0)

\* parse_query: a query is a set of (field, value) entries with distinct fields;
\* the result is the response status and the start_from
parse_query(query) ==
  IF query = {} THEN [status |-> 200, start_from |-> NoId]
  ELSE IF Cardinality(query) > 1 THEN [status |-> 422, start_from |-> NoId]
  ELSE LET entry == CHOOSE e \in query : TRUE
           id == IF entry.field = "start_from" THEN ParseU32(entry.value) ELSE NoId
       IN IF id # NoId
          THEN [status |-> 200, start_from |-> id]
          ELSE [status |-> 422, start_from |-> NoId]

\* parse_url_props: 404 on an unknown path, else the outcome of parse_query
parse_url_props(path_param, query) ==
  IF ~get_filter(path_param).some \/ path_to_filter(path_param) = None
  THEN [status |-> 404, start_from |-> NoId]
  ELSE parse_query(query)

\* Endpoint::is_corresponding_to
is_corresponding_to(endpoint, filter) ==
  \/ endpoint = "Events" /\ filter = "events"
  \/ endpoint = "Main" /\ filter = "main"
  \/ endpoint = "Deploys" /\ filter = "deploys"
  \/ endpoint = "Sigs" /\ filter = "sigs"

\* variant of should_send_shutdown without the arm (Some(Events), Endpoint::Main)
should_send_shutdown_NoLegacy(event, stream_filter) ==
  IF event.inbound_filter = None
  THEN stream_filter = "Sidecar"
  ELSE \/ event.inbound_filter = "main" /\ stream_filter = "Events"
       \/ is_corresponding_to(stream_filter, event.inbound_filter)

\* should_send_shutdown
should_send_shutdown(event, stream_filter) ==
  IF event.inbound_filter = None
  THEN stream_filter = "Sidecar"
  ELSE \/ event.inbound_filter = "main" /\ stream_filter = "Events"
       \/ event.inbound_filter = "events" /\ stream_filter = "Main"
       \/ is_corresponding_to(stream_filter, event.inbound_filter)

\* determine_id: the id field of the frame (the empty id is NoId), or None
\* (some = FALSE) to drop the event
determine_id(event) ==
  IF event.id # NoId
  THEN IF event.data = "ApiVersion"
       THEN [some |-> FALSE, id |-> NoId]
       ELSE [some |-> TRUE, id |-> event.id]
  ELSE IF event.data \notin {"ApiVersion", "SidecarVersion"}
       THEN [some |-> FALSE, id |-> NoId]
       ELSE [some |-> TRUE, id |-> NoId]

\* SseData::should_include, as the tests of filter_map_server_sent_event use it: a
\* Shutdown passes every filter
should_include(data, event_filter) == data = "Shutdown" \/ data \in event_filter

\* the frame written to the client for an event
Frame(event, id) == [t |-> "event", id |-> id, data |-> event.data, key |-> event.key]

\* no frame: the event is filtered out
NoFrame == [t |-> "none", id |-> NoId, data |-> None, key |-> 0]

\* the item stream_to_client yields for an error
ErrorItem(kind) == [t |-> "error", id |-> NoId, data |-> kind, key |-> 0]

\* variant of filter_map_server_sent_event that does not consult the event filter
filter_map_server_sent_event_Unfiltered(event, stream_filter, event_filter) ==
  IF ~determine_id(event).some THEN NoFrame
  ELSE IF event.data = "Shutdown" /\ ~should_send_shutdown(event, stream_filter) THEN NoFrame
  ELSE Frame(event, determine_id(event).id)

\* filter_map_server_sent_event: the frame for the event, or NoFrame to filter it out
filter_map_server_sent_event(event, stream_filter, event_filter) ==
  IF ~should_include(event.data, event_filter) THEN NoFrame
  ELSE IF ~determine_id(event).some THEN NoFrame
  ELSE IF event.data = "Shutdown" /\ ~should_send_shutdown(event, stream_filter) THEN NoFrame
  ELSE Frame(event, determine_id(event).id)


(***************************************************************************)
(* SSE server: the request handler, the server task and the client stream. *)
(***************************************************************************)
\* a request that has not arrived yet (reqPath, reqQuery: the path element and the
\* query the handler was called with)
IdleSub ==
  [st |-> "idle", status |-> 0, path |-> None, start_from |-> NoId,
   attached |-> FALSE, cursor |-> 0, initQ |-> <<>>, initOpen |-> FALSE,
   ids |-> {}, out |-> <<>>, initSeen |-> <<>>, liveSeen |-> <<>>,
   attachedAt |-> None, composedAt |-> None, from |-> 0,
   reqPath |-> None, reqQuery |-> {}]

\* cloned_broadcaster.receiver_count()
receiver_count == Cardinality({c \in Clients : sub[c].attached})

\* variant of validate that refuses only above the limit
validate_Above(count, max_concurrent_subscribers) == count > max_concurrent_subscribers

\* validate: TRUE when the request is refused with 503
validate(count, max_concurrent_subscribers) == count >= max_concurrent_subscribers

\* a query with the single field start_from
StartFrom(value) == {[field |-> "start_from", value |-> value]}

\* variant of the first part of the handler that sends the NewSubscriberInfo before
\* it looks at the request
HandlerValidate_InfoFirst(c, paths, queries) ==
  /\ sub[c].st = "idle"
  /\ \A d \in Clients : d < c => sub[d].st # "idle"
  /\ \E path_param \in paths, query \in queries :
       LET props == parse_url_props(path_param, query) IN
         sub' = [sub EXCEPT ![c] =
                   IF validate(receiver_count, config.max_concurrent_subscribers)
                   THEN [@ EXCEPT !.st = "closed", !.status = 503,
                                  !.reqPath = path_param, !.reqQuery = query]
                   ELSE IF props.status # 200
                        THEN [@ EXCEPT !.st = "closed", !.status = props.status,
                                       !.reqPath = path_param, !.reqQuery = query]
                        ELSE [@ EXCEPT !.st = "validated", !.path = path_param,
                                       !.start_from = props.start_from,
                                       !.reqPath = path_param, !.reqQuery = query]]
  /\ infoQ' = Append(infoQ, [client |-> c, start_from |-> NoId])
  /\ UNCHANGED <<listenerVars, procVars, storeVars, readerVars, bootVars, bcast, config>>

\* serve_sse_response_handler, first part, for a request drawn from paths x queries:
\* validate, then parse_url_props
HandlerValidate(c, paths, queries) ==
  /\ sub[c].st = "idle"
  /\ \A d \in Clients : d < c => sub[d].st # "idle"
  /\ \E path_param \in paths, query \in queries :
       LET props == parse_url_props(path_param, query) IN
         sub' = [sub EXCEPT ![c] =
                   IF validate(receiver_count, config.max_concurrent_subscribers)
                   THEN [@ EXCEPT !.st = "closed", !.status = 503,
                                  !.reqPath = path_param, !.reqQuery = query]
                   ELSE IF props.status # 200
                        THEN [@ EXCEPT !.st = "closed", !.status = props.status,
                                       !.reqPath = path_param, !.reqQuery = query]
                        ELSE [@ EXCEPT !.st = "validated", !.path = path_param,
                                       !.start_from = props.start_from,
                                       !.reqPath = path_param, !.reqQuery = query]]
  /\ UNCHANGED <<listenerVars, procVars, storeVars, readerVars, bootVars, bcast, infoQ, config>>

\* serve_sse_response_handler: mpsc::unbounded_channel(), then
\* new_subscriber_info_sender.send(new_subscriber_info)
HandlerSendInfo(c) ==
  /\ sub[c].st = "validated"
  /\ infoQ' = Append(infoQ, [client |-> c, start_from |-> sub[c].start_from])
  /\ sub' = [sub EXCEPT ![c].st = "sent", ![c].initOpen = TRUE]
  /\ UNCHANGED <<listenerVars, procVars, storeVars, readerVars, bootVars, bcast, config>>

\* serve_sse_response_handler: cloned_broadcaster.subscribe(), then the reply (200)
\* whose body is stream_to_client(..)
HandlerSubscribe(c) ==
  /\ sub[c].st = "sent"
  /\ sub' = [sub EXCEPT ![c].st = "streaming", ![c].status = 200,
                        ![c].attached = TRUE, ![c].cursor = Len(bcast),
                        ![c].attachedAt = IF sent = <<>> THEN "early" ELSE "late",
                        ![c].from = Len(bcast)]
  /\ UNCHANGED <<listenerVars, procVars, storeVars, readerVars, bootVars, bcast, infoQ, config>>

\* ServerSentEvent::initial_event and ServerSentEvent::sidecar_version_event
VersionEvent(data) == [id |-> NoId, data |-> data, inbound_filter |-> None, key |-> 0]

\* the persisted events with event_log_id >= start_from, in commit order
Replay(start_from) ==
  LET rows == SelectSeq(event_log, LAMBDA row : row.event_log_id >= start_from)
  IN [i \in 1..Len(rows) |-> EventOfRow(rows[i])]

\* the server task takes a NewSubscriberInfo, sends the initial events (the version
\* events, then the replay when start_from is given) and drops the sender
ServerNewSubscriber ==
  /\ infoQ # <<>>
  /\ LET info == Head(infoQ)
         initial == <<VersionEvent("ApiVersion"), VersionEvent("SidecarVersion")>>
                    \o (IF info.start_from = NoId THEN <<>> ELSE Replay(info.start_from))
     IN sub' = [sub EXCEPT ![info.client].initQ = initial,
                           ![info.client].initOpen = FALSE,
                           ![info.client].composedAt = IF sent = <<>> THEN "early" ELSE "late"]
  /\ infoQ' = Tail(infoQ)
  /\ UNCHANGED <<listenerVars, procVars, storeVars, readerVars, bootVars, bcast, config>>

\* the items the combined stream yields for one event (none when it is filtered out)
Emit(c, event) ==
  LET frame == filter_map_server_sent_event(
                 event, path_to_filter(sub[c].path), get_filter(sub[c].path).filter)
  IN IF frame = NoFrame THEN <<>> ELSE <<frame>>

\* build_combined_events_stream, initial part: the next initial event is recorded in
\* initial_stream_ids, then filtered and written
StreamInitial(c) ==
  /\ sub[c].st = "streaming"
  /\ sub[c].initQ # <<>>
  /\ LET event == Head(sub[c].initQ) IN
       sub' = [sub EXCEPT ![c].initQ = Tail(@),
                          ![c].ids = IF event.id # NoId THEN @ \cup {event.id} ELSE @,
                          ![c].initSeen = Append(@, event),
                          ![c].out = @ \o Emit(c, event)]
  /\ UNCHANGED <<listenerVars, procVars, storeVars, readerVars, bootVars, bcast, infoQ, config>>

\* variant of handle_sse_event that lets every live event through
handle_sse_event_NoDedup(event, initial_stream_ids) == TRUE

\* variant of handle_sse_event that takes an event without id for a duplicate once
\* initial events with ids have been recorded
handle_sse_event_NoneIsDuplicate(event, initial_stream_ids) ==
  IF event.id = NoId THEN initial_stream_ids = {} ELSE event.id \notin initial_stream_ids

\* handle_sse_event: TRUE when the live event is let through
handle_sse_event(event, initial_stream_ids) ==
  ~(event.id # NoId /\ event.id \in initial_stream_ids)

\* the receiver has fallen behind by more than the channel's capacity
Lagging(c) == Len(bcast) - sub[c].cursor > config.event_stream_buffer_length

\* variant of the ongoing part that passes over a Shutdown message and goes on
StreamLive_IgnoreShutdown(c) ==
  /\ sub[c].st = "streaming"
  /\ sub[c].initQ = <<>> /\ ~sub[c].initOpen
  /\ sub[c].cursor < Len(bcast)
  /\ IF Lagging(c)
     THEN sub' = [sub EXCEPT ![c].out = Append(@, ErrorItem("Lagged")),
                             ![c].cursor = Len(bcast) - config.event_stream_buffer_length,
                             ![c].st = "closed", ![c].attached = FALSE]
     ELSE LET message == bcast[sub[c].cursor + 1] IN
            IF message.msg = "Shutdown"
            THEN sub' = [sub EXCEPT ![c].cursor = @ + 1]
            ELSE sub' = [sub EXCEPT
                           ![c].cursor = @ + 1,
                           ![c].liveSeen = Append(@, message.event),
                           ![c].out = IF handle_sse_event(message.event, sub[c].ids)
                                      THEN @ \o Emit(c, message.event)
                                      ELSE @]
  /\ UNCHANGED <<listenerVars, procVars, storeVars, readerVars, bootVars, bcast, infoQ, config>>

\* variant of the ongoing part in which the stream goes on after the Lagged item
StreamLive_KeepAfterLagged(c) ==
  /\ sub[c].st = "streaming"
  /\ sub[c].initQ = <<>> /\ ~sub[c].initOpen
  /\ sub[c].cursor < Len(bcast)
  /\ IF Lagging(c)
     THEN sub' = [sub EXCEPT ![c].out = Append(@, ErrorItem("Lagged")),
                             ![c].cursor = Len(bcast) - config.event_stream_buffer_length]
     ELSE LET message == bcast[sub[c].cursor + 1] IN
            IF message.msg = "Shutdown"
            THEN sub' = [sub EXCEPT ![c].cursor = @ + 1,
                                    ![c].st = "closed", ![c].attached = FALSE]
            ELSE sub' = [sub EXCEPT
                           ![c].cursor = @ + 1,
                           ![c].liveSeen = Append(@, message.event),
                           ![c].out = IF handle_sse_event(message.event, sub[c].ids)
                                      THEN @ \o Emit(c, message.event)
                                      ELSE @]
  /\ UNCHANGED <<listenerVars, procVars, storeVars, readerVars, bootVars, bcast, infoQ, config>>

\* variant of the ongoing part that is polled without waiting for the initial channel
StreamLive_Unchained(c) ==
  /\ sub[c].st = "streaming"
  /\ sub[c].cursor < Len(bcast)
  /\ IF Lagging(c)
     THEN sub' = [sub EXCEPT ![c].out = Append(@, ErrorItem("Lagged")),
                             ![c].cursor = Len(bcast) - config.event_stream_buffer_length,
                             ![c].st = "closed", ![c].attached = FALSE]
     ELSE LET message == bcast[sub[c].cursor + 1] IN
            IF message.msg = "Shutdown"
            THEN sub' = [sub EXCEPT ![c].cursor = @ + 1,
                                    ![c].st = "closed", ![c].attached = FALSE]
            ELSE sub' = [sub EXCEPT
                           ![c].cursor = @ + 1,
                           ![c].liveSeen = Append(@, message.event),
                           ![c].out = IF handle_sse_event(message.event, sub[c].ids)
                                      THEN @ \o Emit(c, message.event)
                                      ELSE @]
  /\ UNCHANGED <<listenerVars, procVars, storeVars, readerVars, bootVars, bcast, infoQ, config>>

\* variant of the ongoing part in which an event whose data is Shutdown ends the stream
\* as the Shutdown message does
StreamLive_ShutdownDataEnds(c) ==
  /\ sub[c].st = "streaming"
  /\ sub[c].initQ = <<>> /\ ~sub[c].initOpen
  /\ sub[c].cursor < Len(bcast)
  /\ IF Lagging(c)
     THEN sub' = [sub EXCEPT ![c].out = Append(@, ErrorItem("Lagged")),
                             ![c].cursor = Len(bcast) - config.event_stream_buffer_length,
                             ![c].st = "closed", ![c].attached = FALSE]
     ELSE LET message == bcast[sub[c].cursor + 1] IN
            IF message.msg = "Shutdown" \/ message.event.data = "Shutdown"
            THEN sub' = [sub EXCEPT ![c].cursor = @ + 1,
                                    ![c].st = "closed", ![c].attached = FALSE]
            ELSE sub' = [sub EXCEPT
                           ![c].cursor = @ + 1,
                           ![c].liveSeen = Append(@, message.event),
                           ![c].out = IF handle_sse_event(message.event, sub[c].ids)
                                      THEN @ \o Emit(c, message.event)
                                      ELSE @]
  /\ UNCHANGED <<listenerVars, procVars, storeVars, readerVars, bootVars, bcast, infoQ, config>>

\* variant of the ongoing part that is polled as soon as the initial channel is empty,
\* whether or not its sender has been dropped
StreamLive_BeforeSenderDropped(c) ==
  /\ sub[c].st = "streaming"
  /\ sub[c].initQ = <<>>
  /\ sub[c].cursor < Len(bcast)
  /\ IF Lagging(c)
     THEN sub' = [sub EXCEPT ![c].out = Append(@, ErrorItem("Lagged")),
                             ![c].cursor = Len(bcast) - config.event_stream_buffer_length,
                             ![c].st = "closed", ![c].attached = FALSE]
     ELSE LET message == bcast[sub[c].cursor + 1] IN
            IF message.msg = "Shutdown"
            THEN sub' = [sub EXCEPT ![c].cursor = @ + 1,
                                    ![c].st = "closed", ![c].attached = FALSE]
            ELSE sub' = [sub EXCEPT
                           ![c].cursor = @ + 1,
                           ![c].liveSeen = Append(@, message.event),
                           ![c].out = IF handle_sse_event(message.event, sub[c].ids)
                                      THEN @ \o Emit(c, message.event)
                                      ELSE @]
  /\ UNCHANGED <<listenerVars, procVars, storeVars, readerVars, bootVars, bcast, infoQ, config>>

\* variant of the ongoing part that records the ids of the live events it lets through
\* in initial_stream_ids
StreamLive_RecordsLiveIds(c) ==
  /\ sub[c].st = "streaming"
  /\ sub[c].initQ = <<>> /\ ~sub[c].initOpen
  /\ sub[c].cursor < Len(bcast)
  /\ IF Lagging(c)
     THEN sub' = [sub EXCEPT ![c].out = Append(@, ErrorItem("Lagged")),
                             ![c].cursor = Len(bcast) - config.event_stream_buffer_length,
                             ![c].st = "closed", ![c].attached = FALSE]
     ELSE LET message == bcast[sub[c].cursor + 1] IN
            IF message.msg = "Shutdown"
            THEN sub' = [sub EXCEPT ![c].cursor = @ + 1,
                                    ![c].st = "closed", ![c].attached = FALSE]
            ELSE sub' = [sub EXCEPT
                           ![c].cursor = @ + 1,
                           ![c].liveSeen = Append(@, message.event),
                           ![c].ids = IF message.event.id # NoId
                                      THEN @ \cup {message.event.id} ELSE @,
                           ![c].out = IF handle_sse_event(message.event, sub[c].ids)
                                      THEN @ \o Emit(c, message.event)
                                      ELSE @]
  /\ UNCHANGED <<listenerVars, procVars, storeVars, readerVars, bootVars, bcast, infoQ, config>>

\* variant of the ongoing part in which the broadcast receiver outlives the stream
StreamLive_KeepsReceiver(c) ==
  /\ sub[c].st = "streaming"
  /\ sub[c].initQ = <<>> /\ ~sub[c].initOpen
  /\ sub[c].cursor < Len(bcast)
  /\ IF Lagging(c)
     THEN sub' = [sub EXCEPT ![c].out = Append(@, ErrorItem("Lagged")),
                             ![c].cursor = Len(bcast) - config.event_stream_buffer_length,
                             ![c].st = "closed"]
     ELSE LET message == bcast[sub[c].cursor + 1] IN
            IF message.msg = "Shutdown"
            THEN sub' = [sub EXCEPT ![c].cursor = @ + 1, ![c].st = "closed"]
            ELSE sub' = [sub EXCEPT
                           ![c].cursor = @ + 1,
                           ![c].liveSeen = Append(@, message.event),
                           ![c].out = IF handle_sse_event(message.event, sub[c].ids)
                                      THEN @ \o Emit(c, message.event)
                                      ELSE @]
  /\ UNCHANGED <<listenerVars, procVars, storeVars, readerVars, bootVars, bcast, infoQ, config>>

\* stream_to_client, ongoing part (polled once the initial channel is exhausted and
\* closed): the next item of the broadcast receiver.  An error item ends the
\* response body (sse::reply), a Shutdown message ends the stream (take_while).
StreamLive(c) ==
  /\ sub[c].st = "streaming"
  /\ sub[c].initQ = <<>> /\ ~sub[c].initOpen
  /\ sub[c].cursor < Len(bcast)
  /\ IF Lagging(c)
     THEN sub' = [sub EXCEPT ![c].out = Append(@, ErrorItem("Lagged")),
                             ![c].cursor = Len(bcast) - config.event_stream_buffer_length,
                             ![c].st = "closed", ![c].attached = FALSE]
     ELSE LET message == bcast[sub[c].cursor + 1] IN
            IF message.msg = "Shutdown"
            THEN sub' = [sub EXCEPT ![c].cursor = @ + 1,
                                    ![c].st = "closed", ![c].attached = FALSE]
            ELSE sub' = [sub EXCEPT
                           ![c].cursor = @ + 1,
                           ![c].liveSeen = Append(@, message.event),
                           ![c].out = IF handle_sse_event(message.event, sub[c].ids)
                                      THEN @ \o Emit(c, message.event)
                                      ELSE @]
  /\ UNCHANGED <<listenerVars, procVars, storeVars, readerVars, bootVars, bcast, infoQ, config>>

\* the client disconnects: the stream and its broadcast receiver are dropped
ClientDisconnect(c) ==
  /\ sub[c].st = "streaming"
  /\ sub' = [sub EXCEPT ![c].st = "closed", ![c].attached = FALSE]
  /\ UNCHANGED <<listenerVars, procVars, storeVars, readerVars, bootVars, bcast, infoQ, config>>

\* the EventStreamServer is dropped when sse_processor returns: the server task sends
\* BroadcastChannelMessage::Shutdown to every stream
ServerShutdown ==
  /\ pc \in {"done", "panicked"}
  /\ \A i \in 1..Len(bcast) : bcast[i].msg # "Shutdown"
  /\ bcast' = Append(bcast, [msg |-> "Shutdown", event |-> VersionEvent(None)])
  /\ UNCHANGED <<listenerVars, procVars, storeVars, readerVars, bootVars, hubVars>>

\* BroadcastChannelMessage::Shutdown
ShutdownMessage == [msg |-> "Shutdown", event |-> VersionEvent(None)]

\* the broadcast channel fed directly, as the tests of stream_to_client feed it: one of
\* `messages` is sent on it, up to `limit` messages
FeedLive(messages, limit) ==
  /\ Len(bcast) < limit
  /\ \E message \in messages : bcast' = Append(bcast, message)
  /\ UNCHANGED <<listenerVars, procVars, storeVars, readerVars, bootVars, hubVars>>

\* the upstream node in the runs with subscribers: a frame of one of `kinds` arrives
\* while the processor waits in recv() on the empty channel
IngestWhenIdle(kinds, sources) ==
  /\ Len(sent) < MaxLive
  /\ pc = "recv" /\ chan = <<>>
  /\ Upstream(kinds, sources, TRUE)
  /\ UNCHANGED <<procVars, storeVars, readerVars, bootVars, bcast, hubVars>>

(***************************************************************************)
(* Properties of the ingest pipeline.                                      *)
(***************************************************************************)
\* the events sent on the broadcast channel so far, in send order
BroadcastEvents ==
  LET msgs == SelectSeq(bcast, LAMBDA m : m.msg = "ServerSentEvent")
  IN [i \in 1..Len(msgs) |-> msgs[i].event]

\* the event is durably written: its event_log row and its typed row are committed
Durable(event) ==
  \E i \in 1..Len(event_log) :
    /\ EventOfRow(event_log[i]) = event
    /\ \E r \in typed :
         r.table = event.data /\ r.key = event.key /\ r.event_log_id = event_log[i].event_log_id

\* the envelopes sse_processor has taken from the channel, in the order it took them
Received ==
  [i \in 1..Len(handled) |-> handled[i].env] \o (IF cur = NoEnv THEN <<>> ELSE <<cur>>)

\* C1: an event is on the broadcast channel only if the save of that same event has
\* returned Ok before: every broadcast event is durably written and is one the
\* processor has finished with the result Ok
C1_BroadcastOnlyAfterSave ==
  LET events == BroadcastEvents IN
    \A i \in 1..Len(events) :
      /\ Durable(events[i])
      /\ \E j \in 1..Len(handled) :
           handled[j].res = "Ok" /\ SseOf(handled[j].env) = events[i]

\* C1 witness: an event has been saved and then broadcast
C1_Witness ==
  /\ Len(BroadcastEvents) >= 1
  /\ Durable(BroadcastEvents[1])

\* C2: when the save of the event in hand has returned an error, the step that
\* finishes the event leaves the broadcast channel and the store as they were and
\* takes the processor back to recv; the failing save itself leaves the store as it was
C2_ErrorNotBroadcast ==
  [][/\ (pc = "save" /\ pc' # "save" /\ res' # "Ok")
          => (event_log' = event_log /\ typed' = typed /\ bcast' = bcast /\ infoQ' = infoQ)
     /\ (pc = "match" /\ res # "Ok" /\ pc' # "match")
          => /\ bcast' = bcast /\ event_log' = event_log /\ typed' = typed
             /\ infoQ' = infoQ /\ sub' = sub
             /\ pc' = "recv" /\ chan' = chan]_vars

\* C2 witness: a save failed on a duplicate, the processor is receiving again and a
\* later envelope has been handled after it
C2_Witness ==
  /\ pc = "recv"
  /\ Len(handled) >= 2
  /\ handled[1].res = "DuplicateEntry" \/ handled[Len(handled) - 1].res = "DuplicateEntry"

\* C3 (as claimed): whatever envelope other than Shutdown the channel delivers, the
\* processor neither panics nor terminates
C3_NeverDies ==
  /\ pc # "panicked"
  /\ pc = "done" => handled[Len(handled)].env.kind = "Shutdown"

\* the subsequence of the received envelopes whose save returned Ok, as events
OkEvents ==
  LET saved == SelectSeq(handled, LAMBDA h : h.res = "Ok")
  IN [i \in 1..Len(saved) |-> SseOf(saved[i].env)]

\* the committed rows whose event the processor has finished handling
CommittedHandled ==
  IF pc = "match" /\ res = "Ok"
  THEN SubSeq(event_log, 1, Len(event_log) - 1)
  ELSE event_log

\* C4: the processor takes the envelopes in delivery order; the broadcast sequence is
\* the subsequence of them whose save returned Ok, in that order; and for each event
\* type the broadcast order is the commit order of the event_log rows
C4_BroadcastOrder ==
  LET received == Received
      events == BroadcastEvents
      rows == CommittedHandled
      committed == [i \in 1..Len(rows) |-> EventOfRow(rows[i])]
  IN /\ received = SubSeq(sent, 1, Len(received))
     /\ events = OkEvents
     /\ \A kind \in TypedKinds :
          SelectSeq(events, LAMBDA e : e.data = kind)
            = SelectSeq(committed, LAMBDA e : e.data = kind)

\* C4 witness: two events of one type have been broadcast, and an envelope whose save
\* failed was handled between them
C4_Witness ==
  /\ Len(BroadcastEvents) = 2
  /\ BroadcastEvents[1].data = BroadcastEvents[2].data
  /\ Len(handled) = 3
  /\ handled[2].res \notin {"Ok", None}

\* the event_log rows (by position) a typed row references through event_log_id
Parents(r) == {i \in 1..Len(event_log) : event_log[i].event_log_id = r.event_log_id}

\* C23: after any sequence of saves, successful or failing, every typed row references
\* exactly one event_log row; that row is of the typed row's table and entity, it is
\* the only event_log row with its (source, event_type, event_id), and these are those
\* of an envelope whose save returned Ok
C23_TypedRowHasParent ==
  \A r \in typed :
    LET parents == Parents(r) IN
      /\ Cardinality(parents) = 1
      /\ \A i \in parents :
           /\ event_log[i].event_type = r.table /\ event_log[i].key = r.key
           /\ \A j \in 1..Len(event_log) :
                (/\ event_log[j].source = event_log[i].source
                 /\ event_log[j].event_type = event_log[i].event_type
                 /\ event_log[j].event_id = event_log[i].event_id) => j = i
           /\ \/ \E k \in 1..Len(handled) :
                   /\ handled[k].res = "Ok"
                   /\ handled[k].env = [kind |-> r.table, id |-> event_log[i].event_id,
                                        source |-> event_log[i].source, key |-> r.key]
              \/ /\ res = "Ok"
                 /\ cur = [kind |-> r.table, id |-> event_log[i].event_id,
                           source |-> event_log[i].source, key |-> r.key]

\* C23 witness: two typed rows are committed and a save between or after them failed
C23_Witness ==
  /\ Cardinality(typed) = 2
  /\ \E k \in 1..Len(handled) : handled[k].res \notin {"Ok", None}

C37_ShutdownEndsProcessor ==
  /\ [](/\ \A k \in 1..Len(handled) :
             handled[k].env.kind = "Shutdown"
               => k = Len(handled) /\ pc = "done" /\ handled[k].res = None
        /\ \A i \in 1..Len(event_log) : event_log[i].event_type # "Shutdown"
        /\ \A r \in typed : r.table # "Shutdown"
        /\ \A j \in 1..Len(bcast) : bcast[j].event.data # "Shutdown")
  /\ [][pc = "done"
          => /\ pc' = "done"
             /\ UNCHANGED <<event_log, typed, bcast, handled, chan, cur>>]_vars

\* C37 witness: an event was saved and broadcast, then the Shutdown of one source was
\* handled while an event of another source was waiting in the channel
C37_Witness ==
  /\ pc = "done"
  /\ Len(event_log) = 1 /\ Len(bcast) = 1
  /\ chan # <<>>
  /\ chan[1].kind \in TypedKinds
  /\ chan[1].source # handled[Len(handled)].env.source

(***************************************************************************)
(* Specification of the ingest pipeline.                                   *)
(***************************************************************************)
\* the pipeline, the store, the hub and the readers before the first event, with the
\* given downstream requests still to arrive
InitCore(clients, cfg) ==
  /\ chan = <<>>
  /\ lastId = [s \in Sources |-> 0]
  /\ sent = <<>>
  /\ pc = "recv"
  /\ cur = NoEnv
  /\ res = None
  /\ event_log = <<>>
  /\ typed = {}
  /\ bcast = <<>>
  /\ handled = <<>>
  /\ infoQ = <<>>
  /\ sub = [c \in clients |-> IdleSub]
  /\ config = cfg
  /\ reads = NoRead
  /\ call = NoCall

\* the state after construction: run has connected to the node (every endpoint has
\* given its ApiVersion), has spawned the REST server and the processor and waits in
\* select!
InitWith(clients, cfg) ==
  /\ InitCore(clients, cfg)
  /\ first = [s \in Sources |-> "ApiVersion"]
  /\ run = "running"
  /\ rest = "running"

Init == InitWith({}, ConfigNew(NoId, NoId))

Next == Ingest \/ ProcRecv \/ ProcSave \/ ProcMatch

Spec == Init /\ [][Next]_vars

\* the same pipeline, under the name the properties of the store's rows are checked with
SpecStore == Init /\ [][Next]_vars

(***************************************************************************)
(* Specification of one downstream subscriber on the pipeline.             *)
(***************************************************************************)
\* the requests a downstream client sends in these runs
SsePaths == {"main", "deploys", "sidecar", "other"}
SseQueries == {{}, StartFrom(<<"1">>), StartFrom(<<"2">>), StartFrom(<<"x">>)}

\* the variants the listener delivers in these runs, and the endpoints it delivers
\* them from
SseKinds == {"BlockAdded", "DeployAccepted", "Shutdown"}
SseSources == {"main", "deploys"}

InitSse == InitWith({1}, ConfigNew(BufferLength, NoId))

IngestSse == IngestWhenIdle(SseKinds, SseSources)

Request(c) == HandlerValidate(c, SsePaths, SseQueries)

NextSse ==
  \/ IngestSse \/ ProcRecv \/ ProcSave \/ ProcMatch
  \/ ServerNewSubscriber \/ ServerShutdown
  \/ \E c \in Clients :
       \/ Request(c) \/ HandlerSendInfo(c) \/ HandlerSubscribe(c)
       \/ StreamInitial(c) \/ StreamLive(c) \/ ClientDisconnect(c)

SpecSse == InitSse /\ [][NextSse]_vars

\* the frames of the events of a sequence whose kind is in the filter set of the
\* client's path, each with the event's id
KindFrames(c, events) ==
  LET passing == SelectSeq(events, LAMBDA e : e.data \in get_filter(sub[c].path).filter)
  IN [i \in 1..Len(passing) |->
        [t |-> "event", id |-> passing[i].id, data |-> passing[i].data,
         key |-> passing[i].key]]

\* the version frame a path starts with: the ApiVersion (the SidecarVersion on
\* /events/sidecar), with the empty id
VersionFrame(path) ==
  [t |-> "event", id |-> NoId,
   data |-> IF path = "sidecar" THEN "SidecarVersion" ELSE "ApiVersion", key |-> 0]

\* the stream has yielded a Lagged error
HasLagged(c) == \E i \in 1..Len(sub[c].out) : sub[c].out[i] = ErrorItem("Lagged")

\* the initial events have all been written to the client
InitialDone(c) ==
  sub[c].st \in {"streaming", "closed"} /\ sub[c].status = 200
    /\ sub[c].composedAt # None /\ sub[c].initQ = <<>>

\* the events among the first n messages of the broadcast channel
EventsUpTo(n) ==
  LET msgs == SelectSeq(SubSeq(bcast, 1, n), LAMBDA m : m.msg = "ServerSentEvent")
  IN [i \in 1..Len(msgs) |-> msgs[i].event]

C29_VersionFrameFirst ==
  \A c \in Clients :
    sub[c].status = 200 =>
      /\ sub[c].out # <<>> => sub[c].out[1] = VersionFrame(sub[c].path)
      /\ \A i \in 2..Len(sub[c].out) :
           sub[c].out[i].t = "event" /\ sub[c].out[i].id = NoId
             => sub[c].out[i].data \in {"ApiVersion", "SidecarVersion"}
      /\ (\E i \in 1..Len(sub[c].initSeen) : sub[c].initSeen[i].id # NoId)
           => sub[c].out # <<>>
      /\ sub[c].liveSeen # <<>> => sub[c].out # <<>>

\* C29 witness: a subscriber that asked for a replay has been written the version
\* frame, then a replayed event, then a live event
C29_Witness ==
  \E c \in Clients :
    /\ sub[c].status = 200
    /\ \E i \in 1..Len(sub[c].initSeen) : sub[c].initSeen[i].id # NoId
    /\ sub[c].liveSeen # <<>>
    /\ Len(sub[c].out) >= 3
    /\ sub[c].out[1] = VersionFrame(sub[c].path)
    /\ sub[c].out[Len(sub[c].out)].t = "event"
    /\ sub[c].out[Len(sub[c].out)].id # NoId

\* the stream of c has taken something from its broadcast receiver
LiveStarted(c) == sub[c].cursor # sub[c].from \/ sub[c].liveSeen # <<>>

\* C33: the stream takes nothing from the broadcast receiver before the initial
\* channel is exhausted and its sender dropped, and nothing from the initial channel
\* after that: once a live message has been taken the initial channel is empty and
\* closed and every initial event sent has been taken; a step that takes an initial
\* event happens before any live message was taken; a step that takes a live message
\* happens with the initial channel empty and closed
C33_InitialBeforeLive ==
  /\ [](\A c \in Clients :
          LiveStarted(c)
            => /\ sub[c].initQ = <<>> /\ ~sub[c].initOpen
               /\ sub[c].composedAt # None
               /\ Len(sub[c].initSeen) >= 2)
  /\ [][\A c \in DOMAIN sub :
          /\ sub'[c].initSeen # sub[c].initSeen
               => ~LiveStarted(c) /\ sub'[c].cursor = sub[c].cursor
                    /\ sub'[c].liveSeen = sub[c].liveSeen
          /\ (sub[c].st = "streaming" /\ sub'[c].cursor # sub[c].cursor)
               => /\ sub[c].initQ = <<>> /\ ~sub[c].initOpen
                  /\ sub'[c].initSeen = sub[c].initSeen]_vars

\* C33 witness: two events were broadcast while the initial events of a subscriber
\* (the version events and a replayed event) were not yet taken; the stream took the
\* three initial events and then the two live ones
C33_Witness ==
  \E c \in Clients :
    /\ sub[c].from = 0 /\ sub[c].composedAt = "late"
    /\ Len(sub[c].initSeen) = 3
    /\ Len(sub[c].liveSeen) = 2

\* C34 (as claimed): whenever the NewSubscriberInfo of a subscriber is in the channel
\* to the server, or the server has composed its initial events, the subscriber's
\* receiver has been attached to the broadcast channel
C34_AttachBeforeInfo ==
  \A c \in Clients :
    ((\E i \in 1..Len(infoQ) : infoQ[i].client = c) \/ sub[c].composedAt # None)
      => sub[c].attachedAt # None

\* the stream of c has taken every initial event and every message sent so far, and
\* has not lagged
CaughtUp(c) ==
  /\ InitialDone(c) /\ sub[c].st = "streaming" /\ ~HasLagged(c)
  /\ sub[c].cursor = Len(bcast)

\* C35 (as claimed): a subscriber accepted with start_from = k that has not lagged and
\* has read its stream to the end has been written every event that was saved and
\* broadcast, has an id and an event_log_id of at least k, and passes the filter of
\* its path
C35_NoLossAtSeam ==
  \A c \in Clients :
    (sub[c].status = 200 /\ sub[c].start_from # NoId /\ CaughtUp(c)) =>
      \A i \in 1..Len(event_log) :
        (/\ event_log[i].event_log_id >= sub[c].start_from
         /\ event_log[i].event_id >= sub[c].start_from
         /\ event_log[i].event_type \in get_filter(sub[c].path).filter
         /\ \E j \in 1..Len(bcast) :
              bcast[j].msg = "ServerSentEvent" /\ bcast[j].event = EventOfRow(event_log[i]))
          => \E n \in 1..Len(sub[c].out) :
               /\ sub[c].out[n].t = "event"
               /\ sub[c].out[n].id = event_log[i].event_id
               /\ sub[c].out[n].data = event_log[i].event_type
               /\ sub[c].out[n].key = event_log[i].key

\* the ids of the events of a sequence
IdsOf(events) == {events[i].id : i \in 1..Len(events)} \ {NoId}

\* the frames the stream has written
FramesOut(c) == SelectSeq(sub[c].out, LAMBDA item : item.t = "event")

\* C6: the frames written are the initial events that pass the filter followed by the
\* live events that pass the filter, without the live events whose id is the id of
\* an initial event; no id of an initial event is written again from the live stream
C6_SeamDedup ==
  \A c \in Clients :
    sub[c].status = 200 =>
      FramesOut(c) =
        KindFrames(c, sub[c].initSeen)
          \o KindFrames(c, SelectSeq(sub[c].liveSeen,
                                     LAMBDA e : e.id \notin IdsOf(sub[c].initSeen)))

\* C6 witness: an event replayed in the initial stream has also arrived on the live
\* stream, and the client got it once
C6_Witness ==
  \E c \in Clients :
    /\ sub[c].path = "main"
    /\ \E i \in 1..Len(sub[c].liveSeen) :
         /\ sub[c].liveSeen[i].id \in IdsOf(sub[c].initSeen)
         /\ sub[c].liveSeen[i].data = "BlockAdded"
         /\ Len(SelectSeq(FramesOut(c), LAMBDA f : f.id = sub[c].liveSeen[i].id)) = 1

\* C9: a receiver polled while more than the channel's capacity behind yields the
\* Lagged error and the stream is closed; after a Lagged error nothing more is
\* written to that client
C9_LaggedIsDropped ==
  [][\A c \in DOMAIN sub :
       /\ (sub[c].st = "streaming" /\ Lagging(c) /\ sub'[c].cursor # sub[c].cursor)
            => /\ sub'[c].out = Append(sub[c].out, ErrorItem("Lagged"))
               /\ sub'[c].st = "closed" /\ ~sub'[c].attached
       /\ HasLagged(c) => sub'[c].out = sub[c].out]_vars

\* C9 witness: a subscriber has been dropped with Lagged while a later message was
\* still unread
C9_Witness ==
  \E c \in Clients :
    /\ HasLagged(c)
    /\ sub[c].st = "closed"
    /\ sub[c].cursor < Len(bcast)

\* the stream has written a Shutdown data frame
HasShutdownFrame(c) ==
  \E i \in 1..Len(sub[c].out) : sub[c].out[i].t = "event" /\ sub[c].out[i].data = "Shutdown"

\* C12 (as claimed): when sse_processor has received the Shutdown envelope of the
\* upstream main endpoint, a subscriber of /events/main that was attached and has read
\* its stream to the end has been written a Shutdown data frame, and no subscriber of
\* /events/deploys has
C12_UpstreamShutdownFrame ==
  (/\ pc = "done"
   /\ handled[Len(handled)].env.kind = "Shutdown"
   /\ handled[Len(handled)].env.source = "main")
    => \A c \in Clients :
         /\ (/\ sub[c].path = "main" /\ sub[c].status = 200 /\ ~HasLagged(c)
             /\ sub[c].st = "closed" /\ sub[c].cursor >= 1
             /\ bcast[sub[c].cursor].msg = "Shutdown")
              => HasShutdownFrame(c)
         /\ sub[c].path = "deploys" => ~HasShutdownFrame(c)

(***************************************************************************)
(* Specification of admission: concurrent requests, no events.             *)
(***************************************************************************)
AdmissionPaths == {"main", "other"}
AdmissionQueries == {{}, StartFrom(<<"x">>)}

InitAdmission ==
  InitWith(1..(MaxSubscribers + 1), ConfigNew(BufferLength, MaxSubscribers))

RequestAdmission(c) == HandlerValidate(c, AdmissionPaths, AdmissionQueries)

NextAdmission ==
  \/ ServerNewSubscriber
  \/ \E c \in Clients :
       \/ RequestAdmission(c) \/ HandlerSendInfo(c) \/ HandlerSubscribe(c)
       \/ StreamInitial(c) \/ ClientDisconnect(c)

SpecAdmission == InitAdmission /\ [][NextAdmission]_vars

\* the number of receivers attached to the broadcast channel in the next state
receiver_count_next == Cardinality({c \in DOMAIN sub : sub'[c].attached})

\* C7: a request that arrives when the receiver count has reached
\* max_concurrent_subscribers is answered 503 and attaches no receiver; so with N
\* receivers attached and max_concurrent_subscribers = N the next request is refused
C7_AdmissionRefused ==
  [][\A c \in DOMAIN sub :
       (/\ sub[c].st = "idle" /\ sub'[c].st # "idle"
        /\ receiver_count >= config.max_concurrent_subscribers)
         => /\ sub'[c].status = 503 /\ sub'[c].st = "closed"
            /\ ~sub'[c].attached
            /\ receiver_count_next = receiver_count
            /\ infoQ' = infoQ]_vars

\* C7 witness: with max_concurrent_subscribers receivers attached, a further valid
\* request has been answered 503
C7_Witness ==
  /\ receiver_count = config.max_concurrent_subscribers
  /\ \E c \in Clients : sub[c].status = 503 /\ ~sub[c].attached

\* C39: the step that answers a request with 404, 422 or 503 changes nothing but that
\* request's own record: no NewSubscriberInfo is sent, no receiver is attached, the
\* receiver count and the broadcast channel stay as they were; and a refused request
\* never has a receiver, an info in the channel to the server or initial events
C39_RefusalLeavesHub ==
  /\ [][\A c \in DOMAIN sub :
          (sub[c].status = 0 /\ sub'[c].status \in {404, 422, 503})
            => /\ infoQ' = infoQ /\ bcast' = bcast /\ config' = config
               /\ receiver_count_next = receiver_count
               /\ \A d \in DOMAIN sub : d # c => sub'[d] = sub[d]
               /\ sub'[c] = [sub[c] EXCEPT !.st = "closed", !.status = sub'[c].status,
                                            !.reqPath = sub'[c].reqPath,
                                            !.reqQuery = sub'[c].reqQuery]]_vars
  /\ [](\A c \in Clients :
          sub[c].status \in {404, 422, 503}
            => /\ ~sub[c].attached /\ sub[c].st = "closed"
               /\ sub[c].attachedAt = None /\ sub[c].composedAt = None
               /\ sub[c].initQ = <<>> /\ ~sub[c].initOpen
               /\ \A i \in 1..Len(infoQ) : infoQ[i].client # c)

\* C39 witness: with one subscriber streaming, another request has been refused and
\* the subscriber's receiver is the only one
C39_Witness ==
  \E c, d \in Clients :
    /\ sub[c].st = "streaming" /\ sub[c].attached
    /\ sub[d].status \in {404, 422, 503}
    /\ receiver_count = 1

\* C8 (as claimed): the number of attached receivers never exceeds
\* max_concurrent_subscribers
C8_ReceiversWithinLimit == receiver_count <= config.max_concurrent_subscribers

(***************************************************************************)
(* Specification of the fan-out: several subscribers on the pipeline.      *)
(***************************************************************************)
FanoutPaths == {"main"}
FanoutQueries == {{}}
FanoutKinds == {"BlockAdded", "Step", "Shutdown"}
FanoutSources == {"main"}

\* the subscribers of these runs: any one of them may be the slow one
FanoutClients == {1, 2}

InitFanout == InitWith(FanoutClients, ConfigNew(BufferLength, NoId))

IngestFanout == IngestWhenIdle(FanoutKinds, FanoutSources)

RequestFanout(c) == HandlerValidate(c, FanoutPaths, FanoutQueries)

NextFanout ==
  \/ IngestFanout \/ ProcRecv \/ ProcSave \/ ProcMatch
  \/ ServerNewSubscriber \/ ServerShutdown
  \/ \E c \in Clients :
       \/ RequestFanout(c) \/ HandlerSendInfo(c) \/ HandlerSubscribe(c)
       \/ StreamInitial(c) \/ StreamLive(c) \/ ClientDisconnect(c)

SpecFanout == InitFanout /\ [][NextFanout]_vars

\* C10: the broadcast of a saved event can always be taken, whatever the receivers
\* have read; and a subscriber that has not lagged has seen every event sent since
\* it attached, up to the point it has read, in send order, whatever the other
\* subscribers have done
C10_SlowSubscriberIsolated ==
  /\ pc = "match" => ENABLED ProcMatch
  /\ \A c \in Clients :
       (sub[c].attached /\ ~HasLagged(c))
         => sub[c].liveSeen
              = [i \in 1..Len(sub[c].liveSeen) |-> EventsUpTo(Len(bcast))[
                   Len(EventsUpTo(sub[c].from)) + i]]
            /\ Len(sub[c].liveSeen) = Len(EventsUpTo(sub[c].cursor)) - Len(EventsUpTo(sub[c].from))

\* C10 witness: one subscriber has been dropped for lagging while another, attached
\* the whole time, has read both events
C10_Witness ==
  \E c, d \in Clients :
    /\ HasLagged(c)
    /\ sub[d].attached /\ Len(sub[d].liveSeen) = 2 /\ Len(FramesOut(d)) = 3

(***************************************************************************)
(* Specification of the streams of two subscribers of /events/main on a     *)
(* broadcast channel fed with events and Shutdown messages.                 *)
(***************************************************************************)
ShutdownPaths == {"main"}
ShutdownQueries == {{}}

\* the next message on the channel: a BlockAdded or a DeployAccepted with the next id,
\* or the Shutdown message
ShutdownFeed ==
  {EventMessage([id |-> Len(bcast) + 1, data |-> kind,
                 inbound_filter |-> CHOOSE f \in SourcesOf(kind) : TRUE, key |-> 1]) :
     kind \in {"BlockAdded", "DeployAccepted"}}
    \cup {ShutdownMessage}

InitShutdown == InitWith(FanoutClients, ConfigNew(NoId, NoId))

FeedShutdown == FeedLive(ShutdownFeed, MaxEvents)

RequestShutdown(c) == HandlerValidate(c, ShutdownPaths, ShutdownQueries)

NextShutdown ==
  \/ FeedShutdown \/ ServerNewSubscriber
  \/ \E c \in Clients :
       \/ RequestShutdown(c) \/ HandlerSendInfo(c) \/ HandlerSubscribe(c)
       \/ StreamInitial(c) \/ StreamLive(c)

SpecShutdown == InitShutdown /\ [][NextShutdown]_vars

\* the events among the messages n+1 .. m of the broadcast channel
EventsBetween(n, m) ==
  LET msgs == SelectSeq(SubSeq(bcast, n + 1, m), LAMBDA x : x.msg = "ServerSentEvent")
  IN [i \in 1..Len(msgs) |-> msgs[i].event]

\* C11: a subscriber never reads past a Shutdown message sent after it attached; when
\* it has reached that message its stream is closed and its receiver dropped; and what
\* it was delivered are the version frame and the frames of the events sent between
\* its attach point and the point it has read, so nothing sent after the Shutdown
\* message
C11_ShutdownMessageEndsStreams ==
  \A c \in Clients :
    sub[c].status = 200 =>
      /\ \A k \in (sub[c].from + 1)..Len(bcast) :
           bcast[k].msg = "Shutdown"
             => /\ sub[c].cursor <= k
                /\ sub[c].cursor = k => (sub[c].st = "closed" /\ ~sub[c].attached)
      /\ sub[c].liveSeen = EventsBetween(sub[c].from, sub[c].cursor)
      /\ FramesOut(c) = KindFrames(c, sub[c].initSeen) \o KindFrames(c, sub[c].liveSeen)

\* C11 witness: both subscribers were delivered an event, then reached the Shutdown
\* message and were closed, and a later event on the channel stays undelivered
C11_Witness ==
  /\ \A c \in Clients :
       /\ sub[c].st = "closed" /\ Len(FramesOut(c)) = 2
       /\ sub[c].cursor < Len(bcast)
       /\ bcast[sub[c].cursor].msg = "Shutdown"
  /\ bcast[Len(bcast)].msg = "ServerSentEvent"
  /\ bcast[Len(bcast)].event.data = "BlockAdded"

\* the path elements that name an endpoint
KnownPaths == {"events", "main", "deploys", "sigs", "sidecar"}

\* C16 (as claimed): path and query are validated before admission: a request with an
\* unknown path is answered 404 and one with a malformed query 422 whatever the
\* subscriber count, and 503 is the answer only to an otherwise valid request
C16_ValidationBeforeAdmission ==
  \A c \in Clients :
    sub[c].status # 0 =>
      /\ sub[c].reqPath \notin KnownPaths => sub[c].status = 404
      /\ (sub[c].reqPath \in KnownPaths /\ parse_query(sub[c].reqQuery).status = 422)
           => sub[c].status = 422
      /\ sub[c].status = 503
           => sub[c].reqPath \in KnownPaths /\ parse_query(sub[c].reqQuery).status = 200

(***************************************************************************)
(* Specification of the filtering of one subscriber's stream: any path, any *)
(* event on the broadcast channel.                                          *)
(***************************************************************************)
\* every SseData variant
AllKinds == TypedKinds \cup {"ApiVersion", "SidecarVersion", "Shutdown"}

\* Option<SseFilter>: the inbound filters an event can carry
InboundFilters == {None, "events", "main", "deploys", "sigs"}

\* the events fed to the stream: every variant, with and without an id, a Shutdown
\* with every inbound filter
FilterEvents ==
  {[id |-> id, data |-> kind, inbound_filter |-> f,
    key |-> IF kind \in TypedKinds THEN 1 ELSE 0] :
     id \in {NoId, 1}, kind \in AllKinds, f \in InboundFilters}
    \ {e \in [id : {NoId, 1}, data : AllKinds, inbound_filter : InboundFilters, key : {0, 1}] :
          e.data # "Shutdown" /\ e.inbound_filter # None}

FilterQueries == {{}}

InitFilter == InitWith({1}, ConfigNew(NoId, NoId))

FeedFilter == FeedLive({EventMessage(e) : e \in FilterEvents}, MaxLive)

RequestFilter(c) == HandlerValidate(c, PathParams, FilterQueries)

NextFilter ==
  \/ FeedFilter \/ ServerNewSubscriber
  \/ \E c \in Clients :
       \/ RequestFilter(c) \/ HandlerSendInfo(c) \/ HandlerSubscribe(c)
       \/ StreamInitial(c) \/ StreamLive(c)

SpecFilter == InitFilter /\ [][NextFilter]_vars

\* in this step the stream of c takes the next message of its receiver, an event
ReadsEvent(c) ==
  /\ sub[c].st = "streaming" /\ ~Lagging(c)
  /\ sub'[c].cursor = sub[c].cursor + 1
  /\ bcast[sub[c].cursor + 1].msg = "ServerSentEvent"

\* the event taken in a step in which ReadsEvent(c) holds
EventRead(c) == bcast[sub[c].cursor + 1].event

\* in this step the event is written to the client as a frame with its id
Emitted(c) ==
  sub'[c].out = Append(sub[c].out, [t |-> "event", id |-> EventRead(c).id,
                                    data |-> EventRead(c).data, key |-> EventRead(c).key])

\* in this step nothing is written to the client
Dropped(c) == sub'[c].out = sub[c].out

\* the pairs (inbound filter, path) on which a Shutdown event is emitted
ShutdownPair(f, path) ==
  \/ f # None /\ f = path
  \/ f = "main" /\ path = "events"
  \/ f = "events" /\ path = "main"
  \/ f = None /\ path = "sidecar"

\* C13: a Shutdown event (with its id) taken by the stream of a path is written to the
\* client iff the path corresponds to the event's inbound filter, or the pair is
\* (main, /events) or (Events, /events/main), or the event has no inbound filter and
\* the path is /events/sidecar; otherwise it is dropped
C13_ShutdownPropagation ==
  [][\A c \in DOMAIN sub :
       (ReadsEvent(c) /\ EventRead(c).data = "Shutdown" /\ EventRead(c).id # NoId)
         => IF ShutdownPair(EventRead(c).inbound_filter, sub[c].path)
            THEN Emitted(c)
            ELSE Dropped(c)]_vars

\* C13 witness: the stream of /events/main has taken a Shutdown of the inbound filter
\* Events, which was written, and a Shutdown without inbound filter, which was not
C13_Witness ==
  \E c \in Clients :
    /\ sub[c].path = "main"
    /\ Len(sub[c].liveSeen) = 2
    /\ \A i \in 1..2 : sub[c].liveSeen[i].data = "Shutdown" /\ sub[c].liveSeen[i].id # NoId
    /\ {sub[c].liveSeen[i].inbound_filter : i \in 1..2} = {"events", None}
    /\ Len(SelectSeq(sub[c].out, LAMBDA item : item.data = "Shutdown")) = 1

\* the filter set of each path, as listed for the endpoints
PathKinds(path) ==
  CASE path = "events" ->
         {"ApiVersion", "BlockAdded", "DeployProcessed", "Fault", "FinalitySignature"}
    [] path = "main" ->
         {"ApiVersion", "BlockAdded", "DeployProcessed", "DeployExpired", "Fault", "Step"}
    [] path = "deploys" -> {"ApiVersion", "DeployAccepted"}
    [] path = "sigs" -> {"ApiVersion", "FinalitySignature"}
    [] path = "sidecar" -> {"SidecarVersion"}

\* the id is the one the kind must have: none on ApiVersion and SidecarVersion, one on
\* every other kind
WellFormedId(event) == (event.id = NoId) = (event.data \in {"ApiVersion", "SidecarVersion"})

\* C14: an event that is not a Shutdown and has a well-formed id, taken by the stream
\* of a path, is written to the client iff its kind is in the filter set of the path
C14_PathFilterSets ==
  [][\A c \in DOMAIN sub :
       (ReadsEvent(c) /\ EventRead(c).data # "Shutdown" /\ WellFormedId(EventRead(c)))
         => IF EventRead(c).data \in PathKinds(sub[c].path)
            THEN Emitted(c)
            ELSE Dropped(c)]_vars

\* C14 witness: the stream of /events/sigs has taken a FinalitySignature, which was
\* written, and a BlockAdded, which was not
C14_Witness ==
  \E c \in Clients :
    /\ sub[c].path = "sigs"
    /\ {sub[c].liveSeen[i].data : i \in 1..Len(sub[c].liveSeen)}
         = {"FinalitySignature", "BlockAdded"}
    /\ \A i \in 1..Len(sub[c].liveSeen) : sub[c].liveSeen[i].id # NoId
    /\ {sub[c].out[i].data : i \in 1..Len(sub[c].out)} = {"ApiVersion", "FinalitySignature"}

\* C32: an event whose data is Shutdown, taken by a stream from the broadcast channel,
\* is written as a frame with its id or not written at all, and the stream stays open
\* with its receiver attached; a stream that has met only events is never closed and
\* has taken every message up to the point it has read, the ones after a Shutdown
\* event included
C32_ShutdownEventKeepsStream ==
  /\ [][\A c \in DOMAIN sub :
          (ReadsEvent(c) /\ EventRead(c).data = "Shutdown")
            => /\ Emitted(c) \/ Dropped(c)
               /\ sub'[c].st = "streaming" /\ sub'[c].attached
               /\ sub'[c].liveSeen = Append(sub[c].liveSeen, EventRead(c))]_vars
  /\ [](\A c \in Clients :
          sub[c].status = 200
            => /\ sub[c].st = "streaming" /\ sub[c].attached
               /\ sub[c].liveSeen = EventsBetween(sub[c].from, sub[c].cursor))

\* C32 witness: the stream of /events/main was written a Shutdown event of the inbound
\* filter main with its id and, after it, a BlockAdded with its id
C32_Witness ==
  \E c \in Clients :
    /\ sub[c].path = "main" /\ sub[c].st = "streaming"
    /\ Len(sub[c].out) = 3
    /\ sub[c].out[2].data = "Shutdown" /\ sub[c].out[2].id = 1
    /\ sub[c].out[3].data = "BlockAdded" /\ sub[c].out[3].id = 1

\* C15 (as claimed): an event with an id whose kind is ApiVersion or SidecarVersion,
\* and an event without id of any other kind, is dropped on every path, and the
\* stream goes on
C15_MalformedIdDropped ==
  [][\A c \in DOMAIN sub :
       (ReadsEvent(c) /\ ~WellFormedId(EventRead(c)))
         => Dropped(c) /\ sub'[c].st = "streaming"]_vars

(***************************************************************************)
(* Specification of the query of a request: one subscriber of /events/main *)
(* with any of a set of queries, on the running pipeline.                  *)
(***************************************************************************)
QueryPaths == {"main"}

\* the values of the field start_from in these runs
QueryValues ==
  {<<"0">>, <<"1">>, <<"0", "0", "2">>, <<"+", "1">>, U32MaxDigits,
   <<"4", "2", "9", "4", "9", "6", "7", "2", "9", "6">>,
   <<"-", "1">>, <<"x">>, <<"1", ".", "5">>, <<"+">>, <<>>}

\* the queries: empty, the single field start_from, another single field, two fields
QueryQueries ==
  {{}} \cup {StartFrom(value) : value \in QueryValues}
       \cup {{[field |-> "from", value |-> <<"1">>]},
             {[field |-> "start_from", value |-> <<"1">>], [field |-> "x", value |-> <<"1">>]}}

QueryKinds == {"BlockAdded"}
QuerySources == {"main"}

InitQuery == InitWith({1}, ConfigNew(NoId, NoId))

IngestQuery == IngestWhenIdle(QueryKinds, QuerySources)

RequestQuery(c) == HandlerValidate(c, QueryPaths, QueryQueries)

NextQuery ==
  \/ IngestQuery \/ ProcRecv \/ ProcSave \/ ProcMatch
  \/ ServerNewSubscriber
  \/ \E c \in Clients :
       \/ RequestQuery(c) \/ HandlerSendInfo(c) \/ HandlerSubscribe(c)
       \/ StreamInitial(c) \/ StreamLive(c)

SpecQuery == InitQuery /\ [][NextQuery]_vars

\* the values of start_from that are decimal u32 numbers, each with its number (u32::MAX
\* by the number that represents it)
U32Table ==
  {[chars |-> <<"0">>, value |-> 0], [chars |-> <<"1">>, value |-> 1],
   [chars |-> <<"0", "0", "2">>, value |-> 2], [chars |-> <<"+", "1">>, value |-> 1],
   [chars |-> <<"4", "2", "9", "4", "9", "6", "7", "2", "9", "5">>, value |-> 2147483647]}

ReadKinds == {"DeployAccepted", "DeployProcessed", "DeployExpired"}
ReadSources == {"main", "deploys"}

InitRead == InitWith({}, ConfigNew(NoId, NoId))

\* a deploy event arrives while the processor waits in recv() on the empty channel
IngestRead ==
  /\ Len(sent) < MaxEvents
  /\ pc = "recv" /\ chan = <<>>
  /\ Upstream(ReadKinds, ReadSources, TRUE)
  /\ UNCHANGED <<procVars, storeVars, readerVars, bootVars, bcast, hubVars>>

NextRead == IngestRead \/ ProcRecv \/ ProcSave \/ ProcMatch \/ ReadAggregate

SpecRead == InitRead /\ [][NextRead]_vars

\* a call has been made
HasRead == reads.hash \in Keys

\* the rows of a table for the hash of the last call, in the store the call has read
RowsRead(table) == {r \in reads.store : r.table = table /\ r.key = reads.hash}

\* C18: the aggregate is NotFound only if there is no deploy_accepted row for the hash,
\* it is NotFound whenever there is none and the accepted lookup itself does not fail,
\* and with an accepted row it is never NotFound, whatever the other tables hold and
\* whatever happens in the other lookups
C18_NotFoundIffNoAccepted ==
  HasRead =>
    /\ reads.result.err = "NotFound" => RowsRead("DeployAccepted") = {}
    /\ (RowsRead("DeployAccepted") = {} /\ reads.faults.accepted = "none")
         => (~reads.result.ok /\ reads.result.err = "NotFound")

\* C18 witness: a call for a hash without accepted row but with a processed row gave
\* NotFound, and the store of another call has an accepted row
C18_Witness ==
  /\ HasRead
  /\ RowsRead("DeployAccepted") = {} /\ RowsRead("DeployProcessed") # {}
  /\ reads.result.err = "NotFound"
  /\ \E r \in typed : r.table = "DeployAccepted" /\ r.key = reads.hash

\* C19 (as claimed): with an accepted row, an error other than NotFound of the
\* processed lookup is the result of the aggregate, and so is one of the expired
\* lookup when the processed lookup gave NotFound
C19_LookupErrorsPropagate ==
  (HasRead /\ RowsRead("DeployAccepted") # {} /\ reads.faults.accepted = "none") =>
    LET processed ==
          get_deploy_processed_by_hash(reads.store, reads.hash, reads.faults.processed)
        expired ==
          get_deploy_expired_by_hash(reads.store, reads.hash, reads.faults.expired)
    IN /\ (~processed.ok /\ processed.err # "NotFound")
            => (~reads.result.ok /\ reads.result.err = processed.err)
       /\ (~processed.ok /\ processed.err = "NotFound"
            /\ ~expired.ok /\ expired.err # "NotFound")
            => (~reads.result.ok /\ reads.result.err = expired.err)

C21_ProcessedWins ==
  (/\ HasRead /\ reads.faults.accepted = "none" /\ reads.faults.processed = "none"
   /\ RowsRead("DeployAccepted") # {} /\ RowsRead("DeployProcessed") # {}) =>
    /\ reads.result.ok
    /\ \E r \in RowsRead("DeployAccepted") : reads.result.deploy_accepted = r.event_log_id
    /\ \E r \in RowsRead("DeployProcessed") : reads.result.deploy_processed = r.event_log_id
    /\ reads.result.deploy_expired = FALSE

\* C21 witness: a call for a hash with an accepted, a processed and an expired row gave
\* processed = Some and expired = FALSE
C21_Witness ==
  /\ HasRead /\ reads.faults = [l \in LookupNames |-> "none"]
  /\ RowsRead("DeployAccepted") # {} /\ RowsRead("DeployProcessed") # {}
  /\ RowsRead("DeployExpired") # {}
  /\ reads.result.ok /\ reads.result.deploy_processed # NoId
  /\ ~reads.result.deploy_expired

(***************************************************************************)
(* Specification of the parameters of the store's reads.                   *)
(***************************************************************************)
\* the strings a client passes as hash or public key
ParamInputs ==
  {<<>>, Repeat("a", 63), Repeat("a", 64), Repeat("a", 65), Repeat("F", 64),
   Repeat("g", 64), Repeat("a", 63) \o <<"z">>, <<" ">> \o Repeat("a", 63),
   Repeat("a", 66), Repeat("a", 67), Repeat("0", 68), Repeat("a", 69),
   Repeat("a", 65) \o <<"-">>}

ParamKinds == {"BlockAdded", "DeployAccepted", "Fault"}
ParamSources == {"main", "deploys"}

InitParam == InitWith({}, ConfigNew(NoId, NoId))

IngestParam == IngestWhenIdle(ParamKinds, ParamSources)

CallParam == ReadByParam(ParamInputs)

NextParam == IngestParam \/ ProcRecv \/ ProcSave \/ ProcMatch \/ CallParam

SpecParam == InitParam /\ [][NextParam]_vars

\* the inputs above that are 64 hex characters, and those that are 66 or 68
WellFormedHashes == {Repeat("a", 64), Repeat("F", 64)}
WellFormedPublicKeys == {Repeat("a", 66), Repeat("0", 68)}

\* C22 (as claimed): every read of the store that takes a hash or a public key returns
\* InvalidParam, without querying the database, exactly when the string is not 64 hex
\* characters (a hash) or not 66 or 68 hex characters (a public key)
C22_InvalidParamIffMalformed ==
  call.reader # None =>
    LET wellFormed == IF call.op = "get_faults_by_public_key"
                      THEN call.param \in WellFormedPublicKeys
                      ELSE call.param \in WellFormedHashes
    IN IF wellFormed
       THEN call.result.queried /\ call.result.err # "InvalidParam"
       ELSE ~call.result.queried /\ call.result.err = "InvalidParam"

(***************************************************************************)
(* Specification of the supervisor: run waits in select! on the processor  *)
(* task and the REST server task.                                          *)
(***************************************************************************)
\* the processor task has ended: sse_processor has returned or has panicked (its
\* JoinHandle resolves in both cases)
ProcessorFinished == pc \in {"done", "panicked"}

\* start_rest_server returns
RestStops ==
  /\ run = "running" /\ rest = "running"
  /\ rest' = "stopped"
  /\ UNCHANGED <<listenerVars, procVars, storeVars, readerVars, first, run, bcast, hubVars>>

\* variant of the select that waits for both tasks
Select_Both ==
  /\ run = "running"
  /\ ProcessorFinished /\ rest = "stopped"
  /\ run' = "returned"
  /\ UNCHANGED <<listenerVars, procVars, storeVars, readerVars, first, rest, bcast, hubVars>>

\* tokio::select! { _ = sse_processing_task => .., _ = rest_server_handle => .. }, then
\* Ok(()): run returns and the process ends
Select ==
  /\ run = "running"
  /\ ProcessorFinished \/ rest = "stopped"
  /\ run' = "returned"
  /\ UNCHANGED <<listenerVars, procVars, storeVars, readerVars, first, rest, bcast, hubVars>>

RunKinds == {"BlockAdded", "Shutdown"}
RunSources == {"main"}

InitRun == InitWith({}, ConfigNew(NoId, NoId))

IngestRun ==
  /\ Len(sent) < MaxLive
  /\ Upstream(RunKinds, RunSources, FALSE)
  /\ UNCHANGED <<procVars, storeVars, readerVars, bootVars, bcast, hubVars>>

\* the tasks run as long as the process does
NextRun ==
  \/ run = "running" /\ (IngestRun \/ ProcRecv \/ ProcSave \/ ProcMatch)
  \/ RestStops
  \/ Select

SpecRun == InitRun /\ [][NextRun]_vars /\ WF_vars(Select)

\* C25: run returns only when the processor task or the REST server task has ended; once
\* either has ended run does return (Ok), whatever the state of the other task, which
\* it does not wait for; after the return nothing happens any more
C25_EitherTaskEndsRun ==
  /\ [](run = "returned" => (ProcessorFinished \/ rest = "stopped"))
  /\ [](run \in {"running", "returned"})
  /\ ((ProcessorFinished \/ rest = "stopped") ~> run = "returned")
  /\ [][run = "returned" => UNCHANGED vars]_vars

\* C25 witness: run has returned after the processor ended on a Shutdown while the REST
\* server was still running
C25_Witness ==
  /\ run = "returned" /\ rest = "running"
  /\ pc = "done"

(***************************************************************************)
(* The older pipeline (src/src/main.rs): main connects to the three        *)
(* endpoints of the node, reads the first frame of main, spawns one        *)
(* sending task per endpoint, then processes the frames of the shared      *)
(* channel.                                                                *)
(***************************************************************************)
\* what the first read of the main endpoint can give: no event (the iterator ends), data
\* that does not deserialize to SseData, or an event
FirstFrames == {"missing", "invalid", "ApiVersion", "BlockAdded", "Shutdown"}

\* the frames the endpoints emit afterwards; "invalid": data that does not deserialize
OldKinds == {"ApiVersion", "BlockAdded", "DeployAccepted", "Shutdown", "invalid"}

\* variant of the first read that accepts every event that deserializes
Handshake_AnyEvent ==
  /\ run = "startup"
  /\ \E frame \in FirstFrames :
       /\ first' = [first EXCEPT !["main"] = frame]
       /\ run' = IF frame \in {"missing", "invalid"} THEN "failed" ELSE "spawned"
  /\ UNCHANGED <<listenerVars, procVars, storeVars, readerVars, rest, bcast, hubVars>>

\* main_event_source_receiver.iter().next() and the match on it: the ApiVersion, or
\* return Err(..); after it the three sending tasks are spawned
Handshake ==
  /\ run = "startup"
  /\ \E frame \in FirstFrames :
       /\ first' = [first EXCEPT !["main"] = frame]
       /\ run' = IF frame = "ApiVersion" THEN "spawned" ELSE "failed"
  /\ UNCHANGED <<listenerVars, procVars, storeVars, readerVars, rest, bcast, hubVars>>

\* SqliteDb::new(..)?, tokio::spawn(start_rest_server(..)), EventStreamServer::new(..)?
StartServers ==
  /\ run = "spawned"
  /\ \E outcome \in {"ok", "storage", "server"} :
       /\ run' = IF outcome = "ok" THEN "running" ELSE "failed"
       /\ rest' = IF outcome = "storage" THEN rest ELSE "running"
  /\ UNCHANGED <<listenerVars, procVars, storeVars, readerVars, first, bcast, hubVars>>

\* one step of the sending task of an endpoint: the next frame of the endpoint is read
\* and sent on the shared channel; send_events_discarding_first drops the first frame
\* of deploys and sigs
OldRead(s) ==
  /\ run \in {"spawned", "running"}
  /\ Len(sent) < MaxEvents
  /\ IF s # "main" /\ first[s] = None
     THEN /\ \E kind \in {k \in OldKinds : s \in SourcesOf(k)} :
               first' = [first EXCEPT ![s] = kind]
          /\ UNCHANGED listenerVars
     ELSE /\ Upstream(OldKinds, {s}, TRUE)
          /\ UNCHANGED first
  /\ UNCHANGED <<procVars, storeVars, readerVars, run, rest, bcast, hubVars>>

\* variant of recv that takes the newest event of the channel
recv_Newest(channel) ==
  [event |-> channel[Len(channel)], rest |-> SubSeq(channel, 1, Len(channel) - 1)]

\* aggregate_events_rx.recv(): the oldest event of the channel, and the channel after it
recv(channel) == [event |-> Head(channel), rest |-> Tail(channel)]

\* variant of the processing task in which a frame that does not deserialize ends the
\* loop
OldRecv_FatalParseError ==
  /\ run = "running"
  /\ pc = "recv"
  /\ chan # <<>>
  /\ chan' = recv(chan).rest
  /\ LET evt == recv(chan).event IN
       CASE evt.kind = "invalid" ->
              /\ handled' = Append(handled, [env |-> evt, res |-> None])
              /\ pc' = "done"
              /\ UNCHANGED <<cur, bcast>>
         [] evt.kind \in {"ApiVersion", "FinalitySignature"} ->
              /\ Broadcast(evt)
              /\ handled' = Append(handled, [env |-> evt, res |-> None])
              /\ UNCHANGED <<pc, cur>>
         [] evt.kind = "Shutdown" ->
              /\ Broadcast(evt)
              /\ pc' = "done"
              /\ handled' = Append(handled, [env |-> evt, res |-> None])
              /\ UNCHANGED cur
         [] OTHER ->
              /\ Broadcast(evt)
              /\ pc' = "save"
              /\ cur' = evt
              /\ UNCHANGED handled
  /\ UNCHANGED <<lastId, sent, res, storeVars, readerVars, bootVars, hubVars>>

\* sse_processing_task, up to the first await of an iteration: recv, deserialize,
\* event_stream_server.broadcast(sse_data.clone()), then the match on the variant
OldRecv ==
  /\ run = "running"
  /\ pc = "recv"
  /\ chan # <<>>
  /\ chan' = recv(chan).rest
  /\ LET evt == recv(chan).event IN
       CASE evt.kind = "invalid" ->
              /\ handled' = Append(handled, [env |-> evt, res |-> None])
              /\ UNCHANGED <<pc, cur, bcast>>
         [] evt.kind \in {"ApiVersion", "FinalitySignature"} ->
              /\ Broadcast(evt)
              /\ handled' = Append(handled, [env |-> evt, res |-> None])
              /\ UNCHANGED <<pc, cur>>
         [] evt.kind = "Shutdown" ->
              /\ Broadcast(evt)
              /\ pc' = "done"
              /\ handled' = Append(handled, [env |-> evt, res |-> None])
              /\ UNCHANGED cur
         [] OTHER ->
              /\ Broadcast(evt)
              /\ pc' = "save"
              /\ cur' = evt
              /\ UNCHANGED handled
  /\ UNCHANGED <<lastId, sent, res, storeVars, readerVars, bootVars, hubVars>>

\* sse_processing_task: let res = storage.save_xxx(..).await; a warning when it is an
\* error; then the next iteration
OldSave ==
  /\ run = "running"
  /\ pc = "save"
  /\ \E outcome \in SaveOutcomes(cur) :
       /\ Save(cur, outcome)
       /\ handled' = Append(handled, [env |-> cur, res |-> outcome])
  /\ pc' = "recv"
  /\ cur' = NoEnv
  /\ UNCHANGED <<listenerVars, res, readerVars, bootVars, bcast, hubVars>>

InitOld ==
  /\ InitCore({}, ConfigNew(NoId, NoId))
  /\ first = [s \in Sources |-> None]
  /\ run = "startup"
  /\ rest = "off"

NextOld ==
  \/ Handshake \/ StartServers
  \/ \E s \in Sources : OldRead(s)
  \/ OldRecv \/ OldSave
  \/ RestStops \/ Select

SpecOld == InitOld /\ [][NextOld]_vars

\* nothing has been read from the node beyond the first frame of main, nothing is
\* persisted or broadcast, and no server runs
NothingStarted ==
  /\ rest = "off"
  /\ event_log = <<>> /\ typed = {} /\ bcast = <<>>
  /\ chan = <<>> /\ sent = <<>> /\ handled = <<>>
  /\ \A s \in Sources \ {"main"} : first[s] = None

\* C26: when the first read of the main endpoint gives anything but an ApiVersion (no
\* event, data that is not an event, an event of another kind), main has failed with an
\* error, nothing is persisted or broadcast and no server is started, and it stays so;
\* nothing is started before that read either
C26_FirstFrameMustBeApiVersion ==
  /\ [](first["main"] \notin {None, "ApiVersion"} => (run = "failed" /\ NothingStarted))
  /\ [](run = "startup" => (first["main"] = None /\ NothingStarted))
  /\ [](first["main"] = "ApiVersion" => run # "startup")
  /\ [][run = "failed" => UNCHANGED vars]_vars

\* C26 witness: the first frame of main was a BlockAdded and main has failed
C26_Witness == first["main"] = "BlockAdded" /\ run = "failed"

\* C27 (as claimed): no ApiVersion frame read after the first frame of main is
\* persisted or broadcast
C27_LaterApiVersionSuppressed ==
  /\ \A i \in 1..Len(bcast) :
       bcast[i].msg = "ServerSentEvent" => bcast[i].event.data # "ApiVersion"
  /\ \A i \in 1..Len(event_log) : event_log[i].event_type # "ApiVersion"

\* the frames of an endpoint among a sequence of frames, in the order of the sequence
OfSource(frames, s) == SelectSeq(frames, LAMBDA frame : frame.source = s)

\* the frames the processing task has taken from the channel, in the order it took them
OldReceived ==
  [i \in 1..Len(handled) |-> handled[i].env] \o (IF cur = NoEnv THEN <<>> ELSE <<cur>>)

\* C28: for each endpoint, the frames of that endpoint the processing task has taken are
\* the first ones its sending task has sent, in the same order, however the three
\* sending tasks interleave
C28_PerSourceFifo ==
  \A s \in Sources :
    LET taken == OfSource(OldReceived, s)
        emitted == OfSource(sent, s)
    IN Len(taken) <= Len(emitted) /\ taken = SubSeq(emitted, 1, Len(taken))

\* C28 witness: the processing task has taken two different frames of main, in the
\* order they were sent, with a frame of deploys sent and taken between them
C28_Witness ==
  /\ Len(handled) = 3
  /\ handled[1].env.source = "main" /\ handled[2].env.source = "deploys"
  /\ handled[3].env.source = "main"
  /\ handled[1].env # handled[3].env
  /\ sent = <<handled[1].env, handled[2].env, handled[3].env>>

\* C30 (as claimed): every event on the broadcast channel that has a typed table is one
\* whose save has returned Ok before
C30_CommitBeforePublish ==
  \A i \in 1..Len(bcast) :
    (bcast[i].msg = "ServerSentEvent" /\ bcast[i].event.data \in TypedKinds \ {"FinalitySignature"})
      => \E k \in 1..Len(handled) :
           handled[k].res = "Ok" /\ SseOf(handled[k].env) = bcast[i].event

\* the frames among a sequence whose data deserializes into an event
WellFormed(frames) == SelectSeq(frames, LAMBDA frame : frame.kind # "invalid")

\* C31: a frame whose data does not deserialize is neither persisted nor broadcast, and
\* taking it changes neither the store nor the broadcast channel and leaves the
\* processing task at the head of its loop; the well-formed frames taken are broadcast
\* one for one and, when their kind is persisted, saved, whatever invalid frames were
\* taken between them; the loop has ended only on a Shutdown event
C31_ParseErrorDropped ==
  /\ [](/\ \A i \in 1..Len(event_log) : event_log[i].event_type # "invalid"
        /\ \A i \in 1..Len(bcast) : bcast[i].event.data # "invalid"
        /\ Len(bcast) = Len(WellFormed(OldReceived))
        /\ \A k \in 1..Len(handled) :
             /\ handled[k].env.kind = "invalid" => handled[k].res = None
             /\ handled[k].env.kind \in {"BlockAdded", "DeployAccepted"}
                  => handled[k].res \in {"Ok", "DuplicateEntry", "UniqueConstraint", "Other"}
        /\ pc = "done" => handled[Len(handled)].env.kind = "Shutdown")
  /\ [][(/\ pc = "recv" /\ chan # <<>> /\ Head(chan).kind = "invalid"
          /\ chan' = Tail(chan))
           => /\ pc' = "recv"
              /\ bcast' = bcast /\ event_log' = event_log /\ typed' = typed]_vars

\* C31 witness: an invalid frame was taken, and the BlockAdded after it was broadcast
\* and saved
C31_Witness ==
  /\ Len(handled) = 2
  /\ handled[1].env.kind = "invalid"
  /\ handled[2].env.kind = "BlockAdded" /\ handled[2].res = "Ok"
  /\ Len(bcast) = 1 /\ Len(event_log) = 1

(***************************************************************************)
(* Specification of the replay/live dedup of one subscriber of /events/main: *)
(* the pipeline persists and broadcasts BlockAdded events, then the request *)
(* arrives and the broadcast channel is fed directly with events with and   *)
(* without id.                                                              *)
(***************************************************************************)
DedupPaths == {"main"}
DedupQueries == {{}, StartFrom(<<"1">>)}
DedupKinds == {"BlockAdded"}
DedupSources == {"main"}

\* the messages fed to the channel: BlockAdded events with the ids 1 and 2, and the
\* version events, which have no id
DedupFeed ==
  {EventMessage([id |-> id, data |-> "BlockAdded", inbound_filter |-> "main", key |-> 1]) :
     id \in 1..2}
    \cup {EventMessage(VersionEvent("ApiVersion")), EventMessage(VersionEvent("SidecarVersion"))}

InitDedup == InitWith({1}, ConfigNew(NoId, NoId))

\* the events to replay arrive from the node before the request does
IngestDedup ==
  /\ \A c \in Clients : sub[c].st = "idle"
  /\ IngestWhenIdle(DedupKinds, DedupSources)

\* the channel is fed once the subscriber's receiver is attached
FeedDedup ==
  /\ \E c \in Clients : sub[c].attached
  /\ FeedLive(DedupFeed, MaxLive + 1)

RequestDedup(c) == HandlerValidate(c, DedupPaths, DedupQueries)

NextDedup ==
  \/ IngestDedup \/ ProcRecv \/ ProcSave \/ ProcMatch
  \/ FeedDedup \/ ServerNewSubscriber
  \/ \E c \in Clients :
       \/ RequestDedup(c) \/ HandlerSendInfo(c) \/ HandlerSubscribe(c)
       \/ StreamInitial(c) \/ StreamLive(c)

SpecDedup == InitDedup /\ [][NextDedup]_vars

\* C36: the set of initial-stream ids never holds an entry for an event without id,
\* and a version event without id taken from the broadcast receiver is passed on to
\* the filter of the path (which writes it when the path's filter set has its kind),
\* whatever the set holds
C36_IdlessNeverDeduped ==
  /\ [](\A c \in Clients : NoId \notin sub[c].ids)
  /\ [][\A c \in DOMAIN sub :
          (/\ ReadsEvent(c) /\ EventRead(c).id = NoId
           /\ EventRead(c).data \in {"ApiVersion", "SidecarVersion"})
            => /\ sub'[c].out = sub[c].out \o Emit(c, EventRead(c))
               /\ EventRead(c).data \in get_filter(sub[c].path).filter => Emitted(c)]_vars

\* C36 witness: after a replay that recorded an id, an ApiVersion without id arrived on
\* the live stream and was written: the client has two ApiVersion frames
C36_Witness ==
  \E c \in Clients :
    /\ sub[c].ids # {}
    /\ \E i \in 1..Len(sub[c].liveSeen) :
         sub[c].liveSeen[i].data = "ApiVersion" /\ sub[c].liveSeen[i].id = NoId
    /\ Len(SelectSeq(sub[c].out, LAMBDA item : item.data = "ApiVersion")) = 2

\* C38: the set S of a subscription is the set of the ids of the initial events taken
\* so far; only a step that takes an initial event changes it, and a step that takes
\* a live message leaves it as it is, so it is complete when the first live message
\* is taken; a live event with an id that is not in S goes to the filter of the path
\* every time it is taken, also when the same id was taken from the live stream
\* before, and one whose id is in S is not written
C38_DedupSetFromInitialOnly ==
  /\ [](\A c \in Clients :
          /\ sub[c].ids = IdsOf(sub[c].initSeen)
          /\ LiveStarted(c) => sub[c].initQ = <<>> /\ ~sub[c].initOpen)
  /\ [][\A c \in DOMAIN sub :
          /\ sub'[c].ids # sub[c].ids
               => /\ Len(sub'[c].initSeen) = Len(sub[c].initSeen) + 1
                  /\ sub'[c].cursor = sub[c].cursor
          /\ (sub[c].st = "streaming" /\ sub'[c].cursor # sub[c].cursor)
               => sub'[c].ids = sub[c].ids
          /\ (ReadsEvent(c) /\ EventRead(c).id # NoId)
               => IF EventRead(c).id \in sub[c].ids
                  THEN Dropped(c)
                  ELSE sub'[c].out = sub[c].out \o Emit(c, EventRead(c))]_vars

\* C38 witness: with the id 1 in the set from the replay, the live stream brought the
\* id 2 twice and both were written; the id 1, which it also brought, was not written
\* again
C38_Witness ==
  \E c \in Clients :
    /\ sub[c].ids = {1}
    /\ Len(sub[c].liveSeen) = 3
    /\ Len(SelectSeq(sub[c].liveSeen, LAMBDA e : e.id = 2)) = 2
    /\ Len(SelectSeq(sub[c].out, LAMBDA item : item.id = 2)) = 2
    /\ Len(SelectSeq(sub[c].out, LAMBDA item : item.id = 1)) = 1

(***************************************************************************)
(* Specification of the release of admission slots: one request more than  *)
(* max_concurrent_subscribers, streams that end by disconnect, by the       *)
(* Shutdown message or by lagging on a broadcast channel fed directly.      *)
(***************************************************************************)
\* the next message on the channel: a BlockAdded with the next id, or the Shutdown
\* message
FeedRelease ==
  FeedLive({EventMessage([id |-> Len(bcast) + 1, data |-> "BlockAdded",
                          inbound_filter |-> "main", key |-> 1]),
            ShutdownMessage}, MaxLive)

NextRelease ==
  \/ FeedRelease \/ ServerNewSubscriber
  \/ \E c \in Clients :
       \/ RequestShutdown(c) \/ HandlerSendInfo(c) \/ HandlerSubscribe(c)
       \/ StreamInitial(c) \/ StreamLive(c) \/ ClientDisconnect(c)

SpecRelease == InitAdmission /\ [][NextRelease]_vars

\* C40: a receiver is attached exactly while its stream is streaming; the step that
\* ends a stream (disconnect, Shutdown message, Lagged) detaches its receiver and
\* takes the receiver count down by one; and a valid request that arrives while the
\* count is below max_concurrent_subscribers is never answered 503 but goes on to
\* subscribe, however many subscribers were there before
C40_SlotsReleased ==
  /\ [](\A c \in Clients : sub[c].attached <=> sub[c].st = "streaming")
  /\ [][\A c \in DOMAIN sub :
          /\ (sub[c].st = "streaming" /\ sub'[c].st # "streaming")
               => /\ sub'[c].st = "closed" /\ ~sub'[c].attached
                  /\ receiver_count_next = receiver_count - 1
          /\ (/\ sub[c].st = "idle" /\ sub'[c].st # "idle"
              /\ receiver_count < config.max_concurrent_subscribers)
               => /\ sub'[c].status # 503
                  /\ (sub'[c].reqPath \in KnownPaths /\ sub'[c].reqQuery = {})
                       => sub'[c].st = "validated"]_vars

\* C40 witness: the server was full, its subscriber was dropped for lagging, and the
\* request that came after that has been admitted and is streaming
C40_Witness ==
  \E c, d \in Clients :
    /\ HasLagged(c) /\ sub[c].st = "closed" /\ ~sub[c].attached
    /\ sub[d].status = 200 /\ sub[d].attached
    /\ receiver_count = config.max_concurrent_subscribers

====
